---- MODULE Spec2Model ----
(***************************************************************************)
(* Model of logus2k/doco: the DocumentConverter of document_converter.py   *)
(* (Markdown normalizer, compiler adapter, layout and styling engines).    *)
(*                                                                         *)
(* Texts are TLA+ strings; a character is a string of length 1, read with  *)
(* SubSeq.  Three groups of variables carry the three parts of the model:  *)
(*   md_log                      the Markdown normalizer's texts           *)
(*   conv                        one run of convert()                      *)
(*   doc                         one run of _apply_styling                 *)
(* Each specification below starts one part and leaves the others idle.    *)
(* The table step, the image step and the HTML table transcoder keep      *)
(* their state in doc; the two concurrent sessions of main.py keep theirs  *)
(* in conv.                                                                *)
(***************************************************************************)
EXTENDS Integers, Sequences, FiniteSets, TLC

VARIABLES md_log, conv, doc

vars == <<md_log, conv, doc>>

\* ------------------------------------------------------------------------
\* Bounds of the model
\* ------------------------------------------------------------------------
MaxLines == 3       \* lines of a Markdown text given to the rule remover
MaxPieces == 5      \* pieces of a Markdown text given to caption stripping
MaxParas == 3      \* body paragraphs of a document given to _apply_styling
MaxApply == 2       \* times a normalizer pass is applied to its own output
MaxRows == 2        \* rows of a table given to the table step
MaxSide == 3        \* width and height of an inline image, in length units
MaxTrs == 2         \* tr elements of an HTML table given to the transcoder
MaxSections == 2    \* sections of a document given to the layout step

\* ------------------------------------------------------------------------
\* Python str helpers
\* ------------------------------------------------------------------------
Ch(s, i) == SubSeq(s, i, i)

Chars(s) == {Ch(s, i) : i \in 1..Len(s)}

SetMin(S) == CHOOSE m \in S : \A n \in S : m <= n

SetMax(S) == CHOOSE m \in S : \A n \in S : m >= n

\* the characters str.strip() removes that the model's texts can hold
Whitespace == {" ", "\t", "\n"}

\* str.strip()
Strip(s) ==
    LET keep == {i \in 1..Len(s) : Ch(s, i) \notin Whitespace}
    IN IF keep = {} THEN "" ELSE SubSeq(s, SetMin(keep), SetMax(keep))

\* str.split('\n')
RECURSIVE SplitLines(_)
SplitLines(s) ==
    LET nl == {i \in 1..Len(s) : Ch(s, i) = "\n"}
    IN IF nl = {} THEN <<s>>
       ELSE <<SubSeq(s, 1, SetMin(nl) - 1)>>
            \o SplitLines(SubSeq(s, SetMin(nl) + 1, Len(s)))

\* '\n'.join(lines)
RECURSIVE JoinLines(_)
JoinLines(lines) ==
    IF Len(lines) = 0 THEN ""
    ELSE IF Len(lines) = 1 THEN lines[1]
    ELSE lines[1] \o "\n" \o JoinLines(Tail(lines))

\* ------------------------------------------------------------------------
\* Markdown normalizer: _strip_hrs_after_headers
\* ------------------------------------------------------------------------
\* is_hr(text), nested in _strip_hrs_after_headers
is_hr(text) ==
    LET t == Strip(text)
    IN \/ t \in {"---", "***", "___"}
       \/ /\ Len(t) > 5
          /\ \/ Chars(t) = {"_"}
             \/ Chars(t) = {"-"}
             \/ Chars(t) = {"*"}

\* the hash-counting loop of is_header_1
RECURSIVE CountHashes(_, _)
CountHashes(t, i) ==
    IF i <= Len(t) /\ Ch(t, i) = "#" THEN 1 + CountHashes(t, i + 1) ELSE 0

is_header_1_any_level(text) ==
    LET t == Strip(text)
    IN /\ Len(t) > 0 /\ Ch(t, 1) = "#"
       /\ \E k \in 1..Len(t) : CountHashes(t, 1) = k /\ Len(t) > k /\ Ch(t, k + 1) = " "

\* is_header_1(text), nested in _strip_hrs_after_headers
is_header_1(text) ==
    LET t == Strip(text)
    IN IF ~(Len(t) > 0 /\ Ch(t, 1) = "#") THEN FALSE
       ELSE CountHashes(t, 1) = 1 /\ Len(t) > 1 /\ Ch(t, 2) = " "

\* the inner while loop: index of the nearest line above idx+1 that is not
\* blank, 0 when there is none (indices are 1-based here)
RECURSIVE PrevNonBlankLine(_, _)
PrevNonBlankLine(lines, prev_idx) ==
    IF prev_idx >= 1 /\ Strip(lines[prev_idx]) = ""
    THEN PrevNonBlankLine(lines, prev_idx - 1)
    ELSE prev_idx

\* the main while loop of _strip_hrs_after_headers, from line i on
RECURSIVE StripHrsLoop(_, _, _)
StripHrsLoop(lines, i, new_lines) ==
    IF i > Len(lines) THEN new_lines
    ELSE LET line == lines[i]
             prev_idx == PrevNonBlankLine(lines, i - 1)
             is_after_h1 == prev_idx >= 1 /\ is_header_1(Strip(lines[prev_idx]))
         IN IF is_hr(line)
            THEN IF ~is_after_h1
                 THEN StripHrsLoop(lines, i + 1, Append(new_lines, line))
                 ELSE StripHrsLoop(lines, i + 1, new_lines)
            ELSE StripHrsLoop(lines, i + 1, Append(new_lines, line))

_strip_hrs_after_headers(md_content) ==
    JoinLines(StripHrsLoop(SplitLines(md_content), 1, <<>>))

\* ------------------------------------------------------------------------
\* Specification of the rule remover: a text is drawn, then the pass is
\* applied to it and again to its own output
\* ------------------------------------------------------------------------
HrLineKinds ==
    {"", " ", "---", " ******\t", "-----", "# T", "## T", "#T", "T"}

RECURSIVE LinesUpTo(_)
LinesUpTo(n) ==
    IF n = 0 THEN {<<>>}
    ELSE LinesUpTo(n - 1)
         \cup {Append(ls, l) : ls \in {x \in LinesUpTo(n - 1) : Len(x) = n - 1},
                               l \in HrLineKinds}

HrTexts == {JoinLines(ls) : ls \in LinesUpTo(MaxLines)}

IdleConv == [pc |-> "idle"]

IdleDoc == [pc |-> "idle"]

InitHrs ==
    /\ md_log \in {<<m>> : m \in HrTexts}
    /\ conv = IdleConv
    /\ doc = IdleDoc

StripHrs ==
    /\ Len(md_log) <= MaxApply
    /\ md_log' = Append(md_log, _strip_hrs_after_headers(md_log[Len(md_log)]))
    /\ UNCHANGED <<conv, doc>>

NextHrs == StripHrs

SpecHrs == InitHrs /\ [][NextHrs]_vars

\* ------------------------------------------------------------------------
\* Markdown normalizer: _strip_captions
\*   re.sub(r'!\[.*?\]\((.*?)\)', r'![](\1)', md_content)
\* ------------------------------------------------------------------------
\* '.' matches any character but a newline
NoNewline(s, a, b) == \A x \in a..b : Ch(s, x) # "\n"

\* '!\[' at index i
OpensAt(s, i) == i + 1 <= Len(s) /\ Ch(s, i) = "!" /\ Ch(s, i + 1) = "["

\* '(.*?)\)' after a '](' whose ']' is at j: the indices of a closing ')'
PathEnds(s, j) ==
    {k \in (j + 2)..Len(s) : Ch(s, k) = ")" /\ NoNewline(s, j + 2, k - 1)}

\* '.*?\]\(' after a '![' at i: the indices j of a ']' of a '](' from which
\* the rest of the pattern matches
CaptionEnds(s, i) ==
    {j \in (i + 2)..(Len(s) - 1) :
        /\ Ch(s, j) = "]" /\ Ch(s, j + 1) = "("
        /\ NoNewline(s, i + 2, j - 1)
        /\ PathEnds(s, j) # {}}

CaptionEndGreedy(s, i) == SetMax(CaptionEnds(s, i))

\* the non-greedy '.*?' takes the shortest caption that lets the rest match
CaptionEnd(s, i) == SetMin(CaptionEnds(s, i))

\* the non-greedy '(.*?)' takes the shortest path
PathEnd(s, j) == SetMin(PathEnds(s, j))

\* re.sub: leftmost matches, not overlapping, from index pos on
RECURSIVE SubCaptionsFrom(_, _)
SubCaptionsFrom(s, pos) ==
    LET starts == {i \in pos..Len(s) : OpensAt(s, i) /\ CaptionEnds(s, i) # {}}
    IN IF starts = {} THEN SubSeq(s, pos, Len(s))
       ELSE LET i == SetMin(starts)
                j == CaptionEnd(s, i)
                k == PathEnd(s, j)
            IN SubSeq(s, pos, i - 1) \o "![](" \o SubSeq(s, j + 2, k - 1) \o ")"
               \o SubCaptionsFrom(s, k + 1)

_strip_captions(md_content) == SubCaptionsFrom(md_content, 1)

\* ------------------------------------------------------------------------
\* Specification of caption stripping: a text is drawn as a sequence of
\* pieces, then the pass is applied to it and again to its own output
\* ------------------------------------------------------------------------
CapPieces == {"![", "](", ")", "]", "a", "\n"}

RECURSIVE PiecesUpTo(_)
PiecesUpTo(n) ==
    IF n = 0 THEN {""}
    ELSE PiecesUpTo(n - 1) \cup {t \o p : t \in PiecesUpTo(n - 1), p \in CapPieces}

CapTexts == PiecesUpTo(MaxPieces)

InitCaptions ==
    /\ md_log \in {<<m>> : m \in CapTexts}
    /\ conv = IdleConv
    /\ doc = IdleDoc

StripCaptions ==
    /\ Len(md_log) <= MaxApply
    /\ md_log' = Append(md_log, _strip_captions(md_log[Len(md_log)]))
    /\ UNCHANGED <<conv, doc>>

NextCaptions == StripCaptions

SpecCaptions == InitCaptions /\ [][NextCaptions]_vars

\* ------------------------------------------------------------------------
\* convert(): validation, _process_notebook, _process_markdown and
\* _markdown_to_docx, one action per step.  The external compiler (pandoc),
\* the layout step and the styling step are outside choices: pandoc's exit
\* code, and whether _add_header_footer or _apply_styling raises.
\*
\* Files are named by their role: "input", "out_html", "out_md",
\* "assets_dir", "temp_md", "out_docx".  conv.files holds the files this
\* conversion has written and not removed; conv.normalized the Markdown
\* files whose content went through the three normalizer passes.
\* ------------------------------------------------------------------------
Suffixes == {".ipynb", ".md", ".txt"}

\* exit codes of the external compiler: success, and two failures
PandocExitCodes == {0, 1, 64}

NoError == [kind |-> "none", exit |-> 0]

NoResult == [docx |-> "none", html |-> "none", markdown |-> "none"]

NoDocx == [present |-> FALSE, from |-> "none", layout |-> 0, styling |-> 0]

Event(op, arg, ok) == [op |-> op, arg |-> arg, ok |-> ok]

\* raise ConversionError(...): the exception leaves convert()
Raise(c, kind, code) ==
    [c EXCEPT !.pc = "done", !.outcome = "ConversionError",
              !.error = [kind |-> kind, exit |-> code]]

\* _markdown_to_docx(md_path, out_docx, ...) called from call site `call`
CallMarkdownToDocx(c, call, md_path) ==
    [c EXCEPT !.pc = "require_pandoc", !.call = call, !.md_path = md_path]

SupportedSuffixAny(suffix) == TRUE

\* suffix in (".ipynb", ".md")
SupportedSuffix(suffix) == suffix \in {".ipynb", ".md"}

InitConvert ==
    /\ conv \in [pc : {"convert"},
                 suffix : Suffixes,
                 exists : BOOLEAN,
                 output_dir_given : BOOLEAN,
                 pandoc_on_path : BOOLEAN,
                 has_nb : BOOLEAN,
                 export_html : BOOLEAN,
                 export_markdown : BOOLEAN,
                 call : {"none"},
                 md_path : {"none"},
                 dir_created : {FALSE},
                 files : {{}},
                 normalized : {{}},
                 docx : {NoDocx},
                 trace : {<<>>},
                 outcome : {"running"},
                 error : {NoError},
                 result : {NoResult}]
    /\ md_log = <<>>
    /\ doc = IdleDoc

\* convert, lines 86-89: the two input checks
convert_validate ==
    /\ conv.pc = "convert"
    /\ conv' = IF ~conv.exists THEN Raise(conv, "input_not_found", 0)
               ELSE IF ~SupportedSuffix(conv.suffix)
                    THEN Raise(conv, "unsupported_type", 0)
                    ELSE [conv EXCEPT !.pc = "output_dir"]
    /\ UNCHANGED <<md_log, doc>>

\* convert, lines 90-94: output directory, then dispatch on the suffix
convert_dispatch ==
    /\ conv.pc = "output_dir"
    /\ conv' = LET c == [conv EXCEPT !.dir_created = conv.output_dir_given]
               IN IF conv.suffix = ".ipynb"
                  THEN [c EXCEPT !.pc = "nb_require"]
                  ELSE CallMarkdownToDocx(c, "md_first", "input")
    /\ UNCHANGED <<md_log, doc>>

\* _process_notebook, lines 850-882: _require_nb, read and clean the notebook
process_notebook_read ==
    /\ conv.pc = "nb_require"
    /\ conv' = IF ~conv.has_nb THEN Raise(conv, "nb_unavailable", 0)
               ELSE [conv EXCEPT !.pc = "nb_export_html",
                                 !.trace = Append(@, Event("nb_read", "input", TRUE))]
    /\ UNCHANGED <<md_log, doc>>

\* _process_notebook, lines 886-888
process_notebook_html ==
    /\ conv.pc = "nb_export_html"
    /\ conv' = IF conv.export_html
               THEN [conv EXCEPT !.pc = "nb_export_markdown",
                                 !.files = @ \cup {"out_html"},
                                 !.result.html = "out_html",
                                 !.trace = Append(@, Event("nb_export_html", "out_html", TRUE))]
               ELSE [conv EXCEPT !.pc = "nb_export_markdown"]
    /\ UNCHANGED <<md_log, doc>>

\* _process_notebook, lines 891-917: export to Markdown, the three normalizer
\* passes, write out_md and the assets, then call _markdown_to_docx
process_notebook_markdown ==
    /\ conv.pc = "nb_export_markdown"
    /\ \E has_outputs \in BOOLEAN :
          conv' = CallMarkdownToDocx(
                      [conv EXCEPT
                          !.files = @ \cup {"out_md"}
                                      \cup (IF has_outputs THEN {"assets_dir"} ELSE {}),
                          !.normalized = @ \cup {"out_md"},
                          !.result.markdown =
                              IF conv.export_markdown THEN "out_md" ELSE @,
                          !.trace = @ \o <<Event("nb_export_markdown", "input", TRUE),
                                           Event("normalize", "out_md", TRUE)>>],
                      "notebook", "out_md")
    /\ UNCHANGED <<md_log, doc>>

\* _markdown_to_docx, line 803: _require_pandoc
markdown_to_docx_require ==
    /\ conv.pc = "require_pandoc"
    /\ conv' = IF ~conv.pandoc_on_path THEN Raise(conv, "pandoc_not_found", 0)
               ELSE [conv EXCEPT !.pc = "run_pandoc"]
    /\ UNCHANGED <<md_log, doc>>

\* _markdown_to_docx, lines 806-835: subprocess.run(pandoc ...); on exit
\* code 0 pandoc has written a fresh document to out_docx, otherwise the
\* file at out_docx is as it was
markdown_to_docx_pandoc ==
    /\ conv.pc = "run_pandoc"
    /\ \E returncode \in PandocExitCodes :
          LET ev == Event("pandoc", conv.md_path, returncode = 0)
              c == [conv EXCEPT !.trace = Append(@, ev)]
          IN conv' = IF returncode # 0
                     THEN Raise(c, "pandoc_failed", returncode)
                     ELSE [c EXCEPT !.pc = "layout",
                                    !.files = @ \cup {"out_docx"},
                                    !.docx = [present |-> TRUE, from |-> conv.md_path,
                                              layout |-> 0, styling |-> 0]]
    /\ UNCHANGED <<md_log, doc>>

after_layout_uncaught(c, raised) ==
    IF raised THEN Raise(c, "layout_failed", 0) ELSE [c EXCEPT !.pc = "styling"]

\* the try/except around _add_header_footer, lines 838-841
after_layout(c, raised) == [c EXCEPT !.pc = "styling"]

\* _markdown_to_docx, lines 838-841: _add_header_footer saves the document
\* at its end (line 776), so a run that raises leaves the file as it was
markdown_to_docx_layout ==
    /\ conv.pc = "layout"
    /\ \E raised \in BOOLEAN :
          conv' = after_layout(
                      [conv EXCEPT !.trace = Append(@, Event("layout", "out_docx", ~raised)),
                                   !.docx.layout = IF raised THEN @ ELSE @ + 1],
                      raised)
    /\ UNCHANGED <<md_log, doc>>

\* where _markdown_to_docx returns to
ReturnSite(call) ==
    CASE call = "notebook" -> "nb_finish"
      [] call = "md_first" -> "md_normalize"
      [] call = "md_second" -> "md_finish"

\* the try/except around _apply_styling, lines 844-847
after_styling(c, raised) == [c EXCEPT !.pc = ReturnSite(c.call)]

\* _markdown_to_docx, lines 844-847: _apply_styling saves the document at
\* its end (line 712)
markdown_to_docx_styling ==
    /\ conv.pc = "styling"
    /\ \E raised \in BOOLEAN :
          conv' = after_styling(
                      [conv EXCEPT !.trace = Append(@, Event("styling", "out_docx", ~raised)),
                                   !.docx.styling = IF raised THEN @ ELSE @ + 1],
                      raised)
    /\ UNCHANGED <<md_log, doc>>

\* _process_notebook, lines 918-925
process_notebook_finish ==
    /\ conv.pc = "nb_finish"
    /\ conv' = [conv EXCEPT
                   !.pc = "done", !.outcome = "returned",
                   !.result.docx = "out_docx",
                   !.files = IF conv.export_markdown THEN @
                             ELSE @ \ {"out_md", "assets_dir"}]
    /\ UNCHANGED <<md_log, doc>>

\* _process_markdown, lines 935-948: read the input, the three normalizer
\* passes, write temp_md, call _markdown_to_docx on it
process_markdown_normalize ==
    /\ conv.pc = "md_normalize"
    /\ conv' = CallMarkdownToDocx(
                   [conv EXCEPT !.files = @ \cup {"temp_md"},
                                !.normalized = @ \cup {"temp_md"},
                                !.trace = Append(@, Event("normalize", "temp_md", TRUE))],
                   "md_second", "temp_md")
    /\ UNCHANGED <<md_log, doc>>

\* _process_markdown, lines 949-951
process_markdown_finish ==
    /\ conv.pc = "md_finish"
    /\ conv' = [conv EXCEPT !.pc = "done", !.outcome = "returned",
                            !.result.docx = "out_docx",
                            !.files = @ \ {"temp_md"}]
    /\ UNCHANGED <<md_log, doc>>

NextConvert ==
    \/ convert_validate
    \/ convert_dispatch
    \/ process_notebook_read
    \/ process_notebook_html
    \/ process_notebook_markdown
    \/ markdown_to_docx_require
    \/ markdown_to_docx_pandoc
    \/ markdown_to_docx_layout
    \/ markdown_to_docx_styling
    \/ process_notebook_finish
    \/ process_markdown_normalize
    \/ process_markdown_finish

SpecConvert == InitConvert /\ [][NextConvert]_vars

\* ------------------------------------------------------------------------
\* _apply_styling: the document and its paragraphs
\*
\* A paragraph is a record: its style name, its text, the children of its
\* w:pPr that the code reads or rewrites (pBdr, shd, ind, tabs, numPr),
\* whether it holds an image or math, its paragraph format and its runs.
\* Lengths are in points; -1, "none" and "" stand for an absent setting.
\* line_spacing is in points under the rules "exact"/"atLeast" and in
\* hundredths of a line under "multiple".
\* ------------------------------------------------------------------------
StartsWith(s, prefix) ==
    Len(s) >= Len(prefix) /\ SubSeq(s, 1, Len(prefix)) = prefix

\* sub in s
Contains(s, sub) ==
    \E i \in 1..(Len(s) - Len(sub) + 1) : SubSeq(s, i, i + Len(sub) - 1) = sub

Digits == {"0", "1", "2", "3", "4", "5", "6", "7", "8", "9"}

LowerCh(c) ==
    CASE c = "F" -> "f" [] c = "I" -> "i" [] c = "G" -> "g"
      [] c = "U" -> "u" [] c = "R" -> "r" [] c = "E" -> "e"
      [] OTHER -> c

\* re.match(r'^Figure\s+\d+', text, re.IGNORECASE)
MatchesFigure(text) ==
    /\ Len(text) >= 8
    /\ \A i \in 1..6 : LowerCh(Ch(text, i)) = Ch("figure", i)
    /\ \E d \in 8..Len(text) :
          /\ Ch(text, d) \in Digits
          /\ \A w \in 7..(d - 1) : Ch(text, w) \in Whitespace

Run(size, color) == [size |-> size, name |-> "", color |-> color]

Para(style, text, runs) ==
    [id |-> 0, style |-> style, text |-> text,
     pBdr |-> <<>>, shd |-> <<>>, ind |-> <<>>, tabs |-> 0,
     numPr |-> FALSE, image |-> FALSE, math |-> FALSE,
     space_before |-> -1, space_after |-> -1,
     line_rule |-> "none", line_spacing |-> -1,
     page_break_before |-> "none", alignment |-> "none",
     runs |-> runs]

\* a border element of a paragraph border (w:pBdr child)
Border(side, val, sz, space) ==
    [side |-> side, val |-> val, sz |-> sz, space |-> space]

\* python-docx ParagraphFormat.line_spacing_rule = rule
SetLineSpacingRule(p, rule) ==
    IF rule = "single"
    THEN [p EXCEPT !.line_spacing = 100, !.line_rule = "multiple"]
    ELSE [p EXCEPT !.line_rule = rule]

\* python-docx ParagraphFormat.line_spacing = Pt(points)
SetLineSpacingLength(p, points) ==
    [p EXCEPT !.line_spacing = points,
              !.line_rule = IF @ = "atLeast" THEN @ ELSE "exact"]

\* python-docx ParagraphFormat.line_spacing = a float, in hundredths
SetLineSpacingMultiple(p, hundredths) ==
    [p EXCEPT !.line_spacing = hundredths, !.line_rule = "multiple"]

\* accent_blue = RGBColor(0x4F, 0x81, 0xBD)
accent_blue == "4F81BD"

\* the text of the cover paragraph
CoverText == "INSERT YOUR COVER PAGE HERE"

\* --- Pass 1 -------------------------------------------------------------
\* is_hr of Pass 1: a paragraph border, or rule text
IsHrParagraph(p) ==
    LET text == Strip(p.text)
    IN \/ Len(p.pBdr) > 0
       \/ text \in {"---", "***", "___"}
       \/ (Len(text) > 5 /\ Chars(text) = {"_"})

PrevParaNotSkippingBlanks(paragraphs, prev_idx) == prev_idx

\* the while loop of Pass 1: index of the nearest paragraph before
\* prev_idx+1 whose text is not blank, 0 when there is none
RECURSIVE PrevNonBlankPara(_, _)
PrevNonBlankPara(paragraphs, prev_idx) ==
    IF prev_idx >= 1 /\ Strip(paragraphs[prev_idx].text) = ""
    THEN PrevNonBlankPara(paragraphs, prev_idx - 1)
    ELSE prev_idx

PrevIsAnyHeading(prev_style) == StartsWith(prev_style, "Heading")

\* prev_style == 'Heading 1'
PrevIsHeading1(prev_style) == prev_style = "Heading 1"

\* paragraph._element.getparent().remove(paragraph._element)
RemoveElement(body, id) == SelectSeq(body, LAMBDA q : q.id # id)

\* --- Pass 2 -------------------------------------------------------------
HasImage(p) == p.image

IsCodeStyle(style_name) == Contains(style_name, "Source Code")

\* A. base spacing, and exact 16pt lines without image and math
BaseSpacing(p) ==
    LET q == [p EXCEPT !.space_before = 9, !.space_after = 9]
    IN IF ~HasImage(p) /\ ~p.math
       THEN SetLineSpacingLength(SetLineSpacingRule(q, "exact"), 16)
       ELSE q

IsCaptionByTextAlone(paragraphs, i) == MatchesFigure(Strip(paragraphs[i].text))

\* B. the caption test: the text, and an image in the paragraph before
IsCaption(paragraphs, i) ==
    /\ MatchesFigure(Strip(paragraphs[i].text))
    /\ i > 1
    /\ HasImage(paragraphs[i - 1])

CaptionStylingKeepsSize(p, font_family) ==
    SetLineSpacingRule([p EXCEPT !.space_before = 9, !.space_after = 9], "single")

CaptionStyling(p, font_family) ==
    SetLineSpacingRule(
        [p EXCEPT !.runs = [r \in DOMAIN @ |-> [@[r] EXCEPT !.size = 10,
                                                           !.name = font_family]],
                  !.space_before = 9, !.space_after = 9],
        "single")

HeadingStylingKeepsSpacing(p) == p

\* C. heading spacing and page break
HeadingStyling(p) ==
    [p EXCEPT !.space_before = 12, !.space_after = 6,
              !.page_break_before = IF p.style = "Heading 1" THEN "true" ELSE "false"]

AdjIsNeverCode(paragraphs, idx) == FALSE

\* _adj_is_code(idx), with 1-based idx
AdjIsCode(paragraphs, idx) ==
    IF idx < 1 \/ idx > Len(paragraphs) THEN FALSE
    ELSE IsCodeStyle(paragraphs[idx].style)

\* the code block branch: spacing, shading, invisible borders, indent
CodeStyling(p, is_first_code, is_last_code) ==
    [p EXCEPT
        !.space_before = IF is_first_code THEN 12 ELSE 0,
        !.space_after = IF is_last_code THEN 9 ELSE 0,
        !.shd = <<"F2F2F2">>,
        !.pBdr = << {Border("left", "none", 0, 9), Border("right", "none", 0, 9)}
                    \cup (IF is_first_code THEN {Border("top", "none", 0, 5)} ELSE {})
                    \cup (IF is_last_code THEN {Border("bottom", "none", 0, 9)} ELSE {}) >>,
        !.ind = << [left |-> 180, right |-> 180] >>]

ListStylingKeepsIndent(p) ==
    [SetLineSpacingMultiple(SetLineSpacingRule(p, "multiple"), 116)
        EXCEPT !.space_before = 0, !.space_after = 6]

\* the list branch
ListStyling(p) ==
    [SetLineSpacingMultiple(SetLineSpacingRule(p, "multiple"), 116)
        EXCEPT !.space_before = 0, !.space_after = 6, !.ind = <<>>, !.tabs = 0]

\* D. alignment
Alignment(p, is_code, text_align) ==
    [p EXCEPT !.alignment =
        IF is_code THEN "left"
        ELSE IF HasImage(p) THEN "center"
        ELSE IF text_align = "justify" THEN "justify" ELSE "left"]

HeadingRunSizeAllLevels(style_name, size) == 18

\* the size of a heading's run: 18pt for 'Heading 1', else as it is
HeadingRunSize(style_name, size) ==
    IF style_name = "Heading 1" THEN 18 ELSE size

\* the loop over paragraph.runs, lines 532-545
RunFonts(p, is_code, is_heading, is_caption, cfg) ==
    [p EXCEPT !.runs = [r \in DOMAIN @ |->
        [@[r] EXCEPT
            !.name = IF ~is_code THEN cfg.font_family ELSE @,
            !.size = IF is_code THEN cfg.font_size_code
                     ELSE IF is_heading THEN HeadingRunSize(p.style, @)
                     ELSE IF ~is_caption THEN cfg.font_size_body
                     ELSE @,
            !.color = IF is_heading THEN accent_blue ELSE @]]]

\* the TOC heading block inside the paragraph loop, lines 416-445
TocStyling(toc) ==
    IF toc.present /\ toc.pPr /\ toc.style = "TOCHeading"
    THEN [toc EXCEPT !.space_after = 6,
                     !.runs = [r \in DOMAIN @ |->
                                  [@[r] EXCEPT !.size = 18, !.color = accent_blue]]]
    ELSE toc

\* one iteration of the Pass 2 loop on paragraphs[i], lines 357-545
StyleParagraph(paragraphs, i, cfg) ==
    LET p0 == paragraphs[i]
        style_name == p0.style
        is_code == IsCodeStyle(style_name)
        is_heading == StartsWith(style_name, "Heading")
        is_list == \/ Contains(style_name, "List")
                   \/ Contains(style_name, "Compact")
                   \/ p0.numPr
        is_caption == IsCaption(paragraphs, i)
        pA == BaseSpacing(p0)
        pB == IF is_caption THEN CaptionStyling(pA, cfg.font_family) ELSE pA
        pC == IF is_heading THEN HeadingStyling(pB) ELSE pB
        pE == IF is_code
              THEN CodeStyling(pC, ~AdjIsCode(paragraphs, i - 1),
                                   ~AdjIsCode(paragraphs, i + 1))
              ELSE pC
        pF == IF is_list THEN ListStyling(pE) ELSE pE
        pG == Alignment(pF, is_code, cfg.text_align)
    IN RunFonts(pG, is_code, is_heading, is_caption, cfg)

\* ------------------------------------------------------------------------
\* _apply_styling as a state machine, lines 295-545: the setup with the
\* cover page, then one action per iteration of the Pass 1 loop and of the
\* Pass 2 loop.  doc.body is the document's paragraph sequence
\* (doc.paragraphs), doc.paragraphs the list copy Pass 1 iterates over,
\* doc.i the loop index (1-based).  In Pass 2 the list holds the same
\* objects as the body, so the loop works on doc.body.  Pass 2 ends at
\* pc = "numbering", where the numbering, table and image steps start;
\* they touch no body paragraph.
\* ------------------------------------------------------------------------
WithIds(body) == [k \in 1..Len(body) |-> [body[k] EXCEPT !.id = k]]

RECURSIVE BodiesUpTo(_, _)
BodiesUpTo(kinds, n) ==
    IF n = 0 THEN {<<>>}
    ELSE BodiesUpTo(kinds, n - 1)
         \cup {Append(b, k) : b \in {x \in BodiesUpTo(kinds, n - 1) : Len(x) = n - 1},
                              k \in kinds}

NoToc == [present |-> FALSE, pPr |-> FALSE, style |-> "", space_after |-> -1,
          runs |-> <<>>]

\* the structured-content block pandoc --toc writes, with its heading
TocBlock == [present |-> TRUE, pPr |-> TRUE, style |-> "TOCHeading",
             space_after |-> -1, runs |-> <<Run(-1, "")>>]

StylingConfigs ==
    [include_toc : BOOLEAN, font_family : {"Aptos"}, font_size_body : {12},
     font_size_code : {10}, text_align : {"justify"}]

\* the document as Document(docx_path) opens it, under one of the
\* configurations cfgs, with paragraphs of the given kinds
InitStylingUnder(kinds, cfgs, tocs) ==
    /\ doc \in [pc : {"open"},
                cfg : cfgs,
                body : {WithIds(b) : b \in BodiesUpTo(kinds, MaxParas)},
                paragraphs : {<<>>},
                i : {0},
                toc : tocs,
                normal_font : {[name |-> "", size |-> -1]}]
    /\ md_log = <<>>
    /\ conv = IdleConv

InitStylingWith(kinds) == InitStylingUnder(kinds, StylingConfigs, {NoToc, TocBlock})

\* paragraphs for the cleanup pass: headings, blank paragraphs, rules by
\* text and by border, and texts that are no rule
CleanupParagraphKinds ==
    { Para("Heading 1", "T", <<Run(-1, "")>>),
      Para("Heading 2", "T", <<Run(-1, "")>>),
      Para("Heading 1", "***", <<Run(-1, "")>>),
      Para("Body Text", "", <<>>),
      Para("Body Text", "T", <<Run(-1, "")>>),
      Para("Body Text", " ---", <<Run(-1, "")>>),
      Para("Body Text", "______", <<Run(-1, "")>>),
      Para("Body Text", "_____", <<Run(-1, "")>>),
      [Para("Body Text", "", <<>>) EXCEPT !.pBdr = <<{Border("bottom", "single", 6, 1)}>>] }

\* paragraphs for the styling pass: headings with runs of several sizes,
\* caption texts, an image, a code block, a list item
StyledParagraphKinds ==
    { Para("Heading 1", "T", <<Run(14, ""), Run(-1, "FF0000")>>),
      Para("Heading 2", "T", <<Run(14, ""), Run(-1, "")>>),
      Para("Heading 2", "Figure 2: b", <<Run(14, "")>>),
      Para("Body Text", "figure  1", <<Run(-1, "")>>),
      Para("Body Text", "T", <<Run(-1, ""), Run(9, "")>>),
      [Para("Body Text", "", <<Run(-1, "")>>) EXCEPT !.image = TRUE],
      Para("Source Code", "x = 1", <<Run(-1, "")>>),
      [Para("Compact", "item", <<Run(-1, "")>>) EXCEPT !.numPr = TRUE] }

InitCleanup == InitStylingWith(CleanupParagraphKinds)

InitStyling == InitStylingWith(StyledParagraphKinds)

\* cover_para of lines 311-315: the text run and the run with the page break
CoverParagraph == Para("Normal", CoverText, <<Run(-1, ""), Run(-1, "")>>)

\* where the loops start once the paragraph list is taken: Pass 1 at the
\* last paragraph; with no paragraph neither loop has an iteration
EnterPass1(d, body) ==
    IF Len(body) = 0
    THEN [d EXCEPT !.body = body, !.paragraphs = body, !.pc = "numbering", !.i = 0]
    ELSE [d EXCEPT !.body = body, !.paragraphs = body, !.pc = "pass1", !.i = Len(body)]

\* lines 297-319: open the document, base style, cover page, list copy
apply_styling_open ==
    /\ doc.pc = "open"
    /\ doc' = EnterPass1(
                  [doc EXCEPT !.normal_font = [name |-> doc.cfg.font_family,
                                               size |-> doc.cfg.font_size_body]],
                  IF doc.cfg.include_toc /\ Len(doc.body) > 0
                  THEN <<CoverParagraph>> \o doc.body
                  ELSE doc.body)
    /\ UNCHANGED <<md_log, conv>>

\* one iteration of the Pass 1 loop, lines 320-351, on paragraphs[i]; after
\* the last one the paragraph list is refreshed (line 355)
apply_styling_pass1 ==
    /\ doc.pc = "pass1"
    /\ LET paragraphs == doc.paragraphs
           paragraph == paragraphs[doc.i]
           prev_idx == PrevNonBlankPara(paragraphs, doc.i - 1)
           remove == /\ IsHrParagraph(paragraph)
                     /\ prev_idx >= 1
                     /\ PrevIsHeading1(paragraphs[prev_idx].style)
           body == IF remove THEN RemoveElement(doc.body, paragraph.id) ELSE doc.body
       IN doc' = IF doc.i > 1
                 THEN [doc EXCEPT !.body = body, !.i = doc.i - 1]
                 ELSE IF Len(body) = 0
                      THEN [doc EXCEPT !.body = body, !.pc = "numbering", !.i = 0]
                      ELSE [doc EXCEPT !.body = body, !.pc = "pass2", !.i = 1]
    /\ UNCHANGED <<md_log, conv>>

\* one iteration of the Pass 2 loop, lines 357-545, on paragraphs[i]
apply_styling_pass2 ==
    /\ doc.pc = "pass2"
    /\ doc' = [doc EXCEPT
                  !.body[doc.i] = StyleParagraph(doc.body, doc.i, doc.cfg),
                  !.toc = TocStyling(@),
                  !.i = IF doc.i < Len(doc.body) THEN doc.i + 1 ELSE 0,
                  !.pc = IF doc.i < Len(doc.body) THEN "pass2" ELSE "numbering"]
    /\ UNCHANGED <<md_log, conv>>

NextStyling ==
    \/ apply_styling_open
    \/ apply_styling_pass1
    \/ apply_styling_pass2

SpecCleanup == InitCleanup /\ [][NextStyling]_vars

SpecStyling == InitStyling /\ [][NextStyling]_vars

\* documents for the caption test: images, a 'Heading 1' that holds an
\* image, a rule that Pass 1 deletes after it, and 'Figure' texts under body,
\* heading, code and list styles
FigureParagraphKinds ==
    { [Para("Body Text", "", <<Run(-1, "")>>) EXCEPT !.image = TRUE],
      [Para("Heading 1", "T", <<Run(-1, "")>>) EXCEPT !.image = TRUE],
      Para("Body Text", "---", <<Run(-1, "")>>),
      Para("Body Text", "Figure 1: a", <<Run(-1, ""), Run(9, "")>>),
      Para("Body Text", " FIGURE \t2 ", <<Run(-1, "")>>),
      Para("Body Text", "Figure3", <<Run(-1, "")>>),
      Para("Heading 1", "Figure 4", <<Run(-1, "")>>),
      Para("Heading 2", "Figure 5", <<Run(14, "")>>),
      Para("Source Code", "Figure 6", <<Run(-1, "")>>),
      [Para("Compact", "Figure 7", <<Run(-1, "")>>) EXCEPT !.numPr = TRUE] }

\* the default font sizes, and smaller ones
FigureConfigs ==
    { [include_toc |-> t, font_family |-> "Aptos", font_size_body |-> s[1],
       font_size_code |-> s[2], text_align |-> "justify"] :
      t \in BOOLEAN, s \in {<<12, 10>>, <<9, 8>>} }

InitFigures == InitStylingUnder(FigureParagraphKinds, FigureConfigs, {NoToc})

SpecFigures == InitFigures /\ [][NextStyling]_vars

\* documents for code blocks and lists: code paragraphs, one of them a
\* bordered rule with shadings of its own, list paragraphs by style and by
\* numbering with indents and tab stops of their own, one of them code
BlockParagraphKinds ==
    { Para("Source Code", "x = 1", <<Run(-1, "")>>),
      [Para("Source Code", "", <<>>) EXCEPT
          !.pBdr = <<{Border("bottom", "single", 6, 1)}>>,
          !.shd = <<"FFFFFF", "EEEEEE">>],
      [Para("Source Code", "y", <<Run(-1, "")>>) EXCEPT
          !.numPr = TRUE, !.ind = <<[left |-> 720, right |-> 0]>>, !.tabs = 1],
      Para("Body Text", "T", <<Run(-1, "")>>),
      Para("Heading 1", "T", <<Run(-1, "")>>),
      [Para("Compact", "item", <<Run(-1, "")>>) EXCEPT
          !.numPr = TRUE, !.ind = <<[left |-> 720, right |-> 0]>>],
      [Para("Body Text", "item", <<Run(-1, "")>>) EXCEPT
          !.numPr = TRUE, !.tabs = 2],
      [Para("List Bullet", "item", <<Run(-1, "")>>) EXCEPT
          !.ind = <<[left |-> 360, right |-> 0], [left |-> 0, right |-> 0]>>] }

InitBlocks == InitStylingUnder(BlockParagraphKinds, StylingConfigs, {NoToc})

SpecBlocks == InitBlocks /\ [][NextStyling]_vars

\* documents for spacing: paragraphs with one flag and with several (a
\* heading or a code paragraph that is a list item, a heading style that is
\* a code style, 'Figure' texts after an image), and a paragraph with math
\* that comes with a line spacing of its own
SpacingParagraphKinds ==
    { Para("Body Text", "T", <<Run(-1, "")>>),
      [Para("Body Text", "", <<Run(-1, "")>>) EXCEPT !.image = TRUE],
      [Para("Body Text", "E", <<Run(-1, "")>>) EXCEPT
          !.math = TRUE, !.line_rule = "atLeast", !.line_spacing = 14],
      Para("Body Text", "Figure 1", <<Run(-1, "")>>),
      Para("Heading 2", "T", <<Run(-1, "")>>),
      Para("Heading 2", "Figure 2", <<Run(-1, "")>>),
      [Para("Heading 3", "T", <<Run(-1, "")>>) EXCEPT !.numPr = TRUE],
      Para("Source Code", "x = 1", <<Run(-1, "")>>),
      Para("Heading Source Code", "h", <<Run(-1, "")>>),
      [Para("Source Code", "y", <<Run(-1, "")>>) EXCEPT !.numPr = TRUE],
      [Para("Compact", "Figure 3", <<Run(-1, "")>>) EXCEPT !.numPr = TRUE] }

InitSpacing == InitStylingUnder(SpacingParagraphKinds, StylingConfigs, {NoToc})

SpecSpacing == InitSpacing /\ [][NextStyling]_vars

\* ------------------------------------------------------------------------
\* _apply_styling, step 6: tables (lines 594-698)
\*
\* Page lengths are counted in tenths of an inch.  A table is its table
\* properties and its rows; a row is its w:tc elements in grid order.  A
\* w:tc is a record: its vMerge attribute ("" or "continue"), the w:shd,
\* w:tcBorders, w:tcMar and w:vAlign children of its w:tcPr, and its
\* paragraphs.  Rows are numbered from 1 here, so the code's row 0 is
\* rows[1].  doc.t is the table at hand and doc.i its row at hand.
\* ------------------------------------------------------------------------
DefaultPageWidth == 85      \* Inches(8.5)

DefaultLeftMargin == 10     \* Inches(1.0)

DefaultRightMargin == 8     \* Inches(0.8)

\* lines 597-600; an absent or zero length is falsy
available_width(section) ==
    LET page_w == IF section.page_width # 0 THEN section.page_width
                  ELSE DefaultPageWidth
        left_m == IF section.left_margin # 0 THEN section.left_margin
                  ELSE DefaultLeftMargin
        right_m == IF section.right_margin # 0 THEN section.right_margin
                   ELSE DefaultRightMargin
    IN page_w - left_m - right_m

CellRun(size, color, bold) ==
    [size |-> size, name |-> "", color |-> color, bold |-> bold]

CellPara(shd, runs) ==
    [pPr |-> shd # <<>>, shd |-> shd, space_before |-> -1, space_after |-> -1,
     runs |-> runs]

Tc(vMerge, shd, paragraphs) ==
    [vMerge |-> vMerge, shd |-> shd, tcBorders |-> shd # <<>>,
     tcMar |-> shd # <<>>, vAlign |-> <<>>, paragraphs |-> paragraphs]

\* the table borders of lines 621-629
TblBorders ==
    [side \in {"top", "left", "bottom", "right", "insideH", "insideV"} |->
        [val |-> "single", sz |-> 4, space |-> 0, color |-> "4F81BD"]]

\* the default cell margins of lines 632-638
TblCellMar ==
    [top |-> 58, bottom |-> 58, left |-> 115, right |-> 115]

\* the look flags of lines 641-649
TblLook ==
    [val |-> "04A0", firstRow |-> 1, lastRow |-> 0, firstColumn |-> 1,
     lastColumn |-> 0, noHBand |-> 0, noVBand |-> 1]

\* lines 603-656: the table-level properties
FormatTableProperties(table, has_table_grid) ==
    [table EXCEPT
        !.style = IF has_table_grid THEN "Table Grid" ELSE @,
        !.tblBorders = <<TblBorders>>,
        !.tblCellMar = <<TblCellMar>>,
        !.tblLook = <<TblLook>>,
        !.jc = <<"center">>]

\* the row of the w:tc that row.cells gives for column c of row i: a w:tc
\* with vMerge "continue" stands for the cell above it (python-docx gives
\* the cell that starts the vertical merge)
RECURSIVE MergeOrigin(_, _, _)
MergeOrigin(rows, i, c) ==
    IF i > 1 /\ rows[i][c].vMerge = "continue"
    THEN MergeOrigin(rows, i - 1, c)
    ELSE i

\* lines 680-694, on a paragraph of a cell of the row with index i
FormatCellParagraph(paragraph, i, cfg) ==
    [paragraph EXCEPT
        !.space_before = 0, !.space_after = 0, !.pPr = TRUE, !.shd = <<>>,
        !.runs = [r \in DOMAIN @ |->
                     [@[r] EXCEPT !.size = cfg.font_size_table,
                                  !.name = cfg.font_family,
                                  !.bold = IF i = 1 THEN TRUE ELSE @,
                                  !.color = IF i = 1 THEN "FFFFFF" ELSE "000000"]]]

\* lines 661-694, on one cell of the row with index i
FormatCell(tc, i, cfg) ==
    [tc EXCEPT
        !.shd = IF i = 1 THEN <<"4F81BD">> ELSE <<>>,
        !.tcBorders = FALSE,
        !.tcMar = FALSE,
        !.vAlign = Append(@, "center"),
        !.paragraphs = [k \in DOMAIN @ |-> FormatCellParagraph(@[k], i, cfg)]]

\* one iteration of the loop over table.rows, line 659: every cell of
\* row.cells is formatted with the index of this row
FormatRow(rows, i, cfg) ==
    [r \in DOMAIN rows |->
        [c \in DOMAIN rows[r] |->
            IF c \in DOMAIN rows[i] /\ MergeOrigin(rows, i, c) = r
            THEN FormatCell(rows[r][c], i, cfg)
            ELSE rows[r][c]]]

\* a table as the compiler writes it, with its w:tblLook elements
Table(rows, tblLook) ==
    [style |-> "Table", tblBorders |-> <<>>, tblCellMar |-> <<>>,
     tblLook |-> tblLook, jc |-> <<>>, rows |-> rows,
     autofit |-> TRUE, preferred_width |-> -1]

PlainTc == Tc("", <<>>, <<CellPara(<<>>, <<CellRun(-1, "", FALSE)>>)>>)

\* a cell with its own shading, a shaded paragraph and coloured runs
ShadedTc ==
    Tc("", <<"FFFF00">>,
       <<CellPara(<<"EEEEEE">>, <<CellRun(12, "FF0000", FALSE),
                                  CellRun(-1, "", TRUE)>>)>>)

\* the w:tc that continues a vertical merge: no content of its own
ContinueTc == Tc("continue", <<>>, <<CellPara(<<>>, <<>>)>>)

ColumnCounts == {1, 2}

\* tables of n rows and cols columns; the first row starts no merge
RECURSIVE TablesOf(_, _)
TablesOf(n, cols) ==
    IF n = 1 THEN {<<row>> : row \in [1..cols -> {PlainTc, ShadedTc}]}
    ELSE {Append(rows, row) :
            rows \in TablesOf(n - 1, cols),
            row \in [1..cols -> {PlainTc, ShadedTc, ContinueTc}]}

\* the look flags a table comes with: none, the compiler's, or two elements
PandocTblLook ==
    [val |-> "0020", firstRow |-> 1, lastRow |-> 0, firstColumn |-> 0,
     lastColumn |-> 0, noHBand |-> 0, noVBand |-> 0]

TblLooks == {<<>>, <<PandocTblLook>>, <<PandocTblLook, PandocTblLook>>}

Tables ==
    {Table(rows, look) :
        rows \in UNION {TablesOf(n, cols) :
                          n \in 1..MaxRows, cols \in ColumnCounts},
        look \in TblLooks}

Sections ==
    { [page_width |-> 0, left_margin |-> 0, right_margin |-> 0],
      [page_width |-> 83, left_margin |-> 10, right_margin |-> 8] }

TableConfigs ==
    [resize_tables : BOOLEAN, font_size_table : {11}, font_family : {"Aptos"}]

InitTables ==
    /\ doc \in [pc : {"tables"},
                cfg : TableConfigs,
                section : Sections,
                has_table_grid : BOOLEAN,
                tables : {<<>>} \cup {<<table>> : table \in Tables},
                t : {1},
                i : {0}]
    /\ md_log = <<>>
    /\ conv = IdleConv

\* the next table of the loop of line 602, or the image step after the last
NextTable(d) ==
    IF d.t < Len(d.tables)
    THEN [d EXCEPT !.t = d.t + 1, !.pc = "tables", !.i = 0]
    ELSE [d EXCEPT !.pc = "images", !.i = 0]

\* lines 603-656 on table t: style, borders, margins, look, centring
apply_styling_table_properties ==
    /\ doc.pc = "tables"
    /\ doc.t <= Len(doc.tables)
    /\ doc' = [doc EXCEPT
                  !.tables[doc.t] = FormatTableProperties(@, doc.has_table_grid),
                  !.pc = "rows",
                  !.i = 1]
    /\ UNCHANGED <<md_log, conv>>

\* one iteration of the loop of line 659 on row i of table t
apply_styling_table_row ==
    /\ doc.pc = "rows"
    /\ doc.i <= Len(doc.tables[doc.t].rows)
    /\ doc' = [doc EXCEPT
                  !.tables[doc.t].rows = FormatRow(@, doc.i, doc.cfg),
                  !.i = doc.i + 1]
    /\ UNCHANGED <<md_log, conv>>

\* lines 696-698 on table t, after its last row
apply_styling_table_resize ==
    /\ doc.pc = "rows"
    /\ doc.i > Len(doc.tables[doc.t].rows)
    /\ doc' = NextTable(
                  IF doc.cfg.resize_tables
                  THEN [doc EXCEPT
                           !.tables[doc.t].autofit = FALSE,
                           !.tables[doc.t].preferred_width =
                               available_width(doc.section)]
                  ELSE doc)
    /\ UNCHANGED <<md_log, conv>>

NextTables ==
    \/ apply_styling_table_properties
    \/ apply_styling_table_row
    \/ apply_styling_table_resize

SpecTables == InitTables /\ [][NextTables]_vars

\* ------------------------------------------------------------------------
\* _apply_styling, the image step and the save (lines 700-712)
\*
\* doc.inline_shapes are the inline images of the document in memory,
\* doc.before the same images as they were when the document was opened,
\* doc.file the images of the file at docx_path, doc.s the image at hand,
\* doc.warning whether _markdown_to_docx printed its styling warning.  Widths, heights and page lengths are whole numbers of one length
\* unit.
\* ------------------------------------------------------------------------
ResizedHeightUnscaled(height, target_width, current_width) == {height}

\* Emu(s.height * ratio) with ratio = target_width / current_width, lines
\* 708-710: the product is truncated to a whole number.  The quotient is a
\* float: when it is not exact and the true product is whole, the float
\* product can fall just below it and truncate to one less.
ResizedHeight(height, target_width, current_width) ==
    LET exact == (height * target_width) \div current_width
    IN IF /\ height * target_width > 0
          /\ target_width % current_width # 0
          /\ (height * target_width) % current_width = 0
       THEN {exact, exact - 1}
       ELSE {exact}

\* s.width = target_width; s.height = Emu(...), lines 709-710, with a file
\* that is written along with the document in memory
SetShapeWritingFile(d, width, height) ==
    [d EXCEPT !.inline_shapes[d.s] = [width |-> width, height |-> height],
              !.file[d.s] = [width |-> width, height |-> height]]

\* s.width = target_width; s.height = Emu(...), lines 709-710: the shape of
\* the document in memory changes, the file does not
SetShape(d, width, height) ==
    [d EXCEPT !.inline_shapes[d.s] = [width |-> width, height |-> height]]

Shapes == [width : 0..MaxSide, height : 0..MaxSide]

ShapeCounts == {0, 1, 2}

InlineShapes ==
    UNION {[1..n -> Shapes] : n \in ShapeCounts}

\* page and margins that leave 67, 3 and 4 units of content width
ImageSections ==
    { [page_width |-> 0, left_margin |-> 0, right_margin |-> 0],
      [page_width |-> 5, left_margin |-> 1, right_margin |-> 1],
      [page_width |-> 6, left_margin |-> 1, right_margin |-> 1] }

InitImages ==
    /\ \E shapes \in InlineShapes :
          doc \in [pc : {"images"},
                   cfg : [resize_images : BOOLEAN],
                   section : ImageSections,
                   inline_shapes : {shapes},
                   before : {shapes},
                   file : {shapes},
                   warning : {FALSE},
                   s : {1}]
    /\ md_log = <<>>
    /\ conv = IdleConv

\* one iteration of the loop of line 702 on image s
apply_styling_resize_image ==
    /\ doc.pc = "images"
    /\ doc.cfg.resize_images
    /\ doc.s <= Len(doc.inline_shapes)
    /\ LET current_width == doc.inline_shapes[doc.s].width
           target_width == available_width(doc.section)
       IN IF current_width = target_width
          THEN doc' = [doc EXCEPT !.s = doc.s + 1]
          ELSE IF current_width = 0
          THEN doc' = [doc EXCEPT !.pc = "raised"]
          ELSE \E h \in ResizedHeight(doc.inline_shapes[doc.s].height,
                                      target_width, current_width) :
                  doc' = [SetShape(doc, target_width, h) EXCEPT !.s = doc.s + 1]
    /\ UNCHANGED <<md_log, conv>>

\* doc.save(str(docx_path)), line 712
apply_styling_save ==
    /\ doc.pc = "images"
    /\ ~doc.cfg.resize_images \/ doc.s > Len(doc.inline_shapes)
    /\ doc' = [doc EXCEPT !.pc = "saved", !.file = doc.inline_shapes]
    /\ UNCHANGED <<md_log, conv>>

\* _markdown_to_docx, lines 843-847: what _apply_styling raises is caught
\* and printed as a warning, and _markdown_to_docx returns
markdown_to_docx_after_styling ==
    /\ doc.pc \in {"raised", "saved"}
    /\ doc' = [doc EXCEPT !.pc = "returned", !.warning = (doc.pc = "raised")]
    /\ UNCHANGED <<md_log, conv>>

NextImages ==
    \/ apply_styling_resize_image
    \/ apply_styling_save
    \/ markdown_to_docx_after_styling

SpecImages == InitImages /\ [][NextImages]_vars

\* ------------------------------------------------------------------------
\* _html_table_to_markdown (lines 127-157)
\*
\* The HTML text is given as lxml parses it: parsed is FALSE when
\* fromstring raises (an empty document), table tells whether the tree is
\* or holds a table element, trs are the table's tr elements in document
\* order, each the sequence of its child elements with tag and text
\* content.  doc.md_table is the returned text, "none" before the call.
\* ------------------------------------------------------------------------
\* sep.join(items)
RECURSIVE Join(_, _)
Join(sep, items) ==
    IF Len(items) = 0 THEN ""
    ELSE IF Len(items) = 1 THEN items[1]
    ELSE items[1] \o sep \o Join(sep, Tail(items))

\* [c.text_content().strip() for c in tr if c.tag in ('td', 'th')]
TrCells(tr) ==
    LET kept == SelectSeq(tr, LAMBDA c : c.tag \in {"td", "th"})
    IN [k \in DOMAIN kept |-> Strip(kept[k].text)]

\* lines 137-141: the rows with at least one cell
TableRows(trs) ==
    SelectSeq([k \in DOMAIN trs |-> TrCells(trs[k])], LAMBDA cells : Len(cells) > 0)

\* lines 147-149: append '' until the row has num_cols cells
PadRow(r, num_cols) ==
    [k \in 1..num_cols |-> IF k <= Len(r) THEN r[k] ELSE ""]

\* '| ' + ' | '.join(row) + ' |'
RenderRow(row) == "| " \o Join(" | ", row) \o " |"

\* lines 143-157, on a table with rows
RenderTable(rows) ==
    LET num_cols == SetMax({Len(rows[k]) : k \in DOMAIN rows})
        padded == [k \in DOMAIN rows |-> PadRow(rows[k], num_cols)]
        lines == <<RenderRow(padded[1]),
                   RenderRow([k \in 1..num_cols |-> "---"])>>
                 \o [k \in 1..(Len(padded) - 1) |-> RenderRow(padded[k + 1])]
    IN Join("\n", lines)

\* the outcome of the call: the text returned, or the exception raised
_html_table_to_markdown(html) ==
    IF ~html.parsed THEN [raised |-> "ParserError", value |-> "none"]
    ELSE IF ~html.table THEN [raised |-> "", value |-> ""]
    ELSE IF Len(TableRows(html.trs)) = 0 THEN [raised |-> "", value |-> ""]
    ELSE [raised |-> "", value |-> RenderTable(TableRows(html.trs))]

\* child elements of a tr: cells that are empty, padded with whitespace,
\* hold a pipe or a line break, and an element that is no cell
TrChildren ==
    { [tag |-> "td", text |-> ""],
      [tag |-> "th", text |-> " a\t"],
      [tag |-> "td", text |-> "c|d"],
      [tag |-> "td", text |-> "x\ny"],
      [tag |-> "p", text |-> "e"] }

ChildCounts == {0, 1, 2}

Trs == UNION {[1..n -> TrChildren] : n \in ChildCounts}

HtmlInputs ==
    { [parsed |-> FALSE, table |-> FALSE, trs |-> <<>>],
      [parsed |-> TRUE, table |-> FALSE, trs |-> <<>>] }
    \cup {[parsed |-> TRUE, table |-> TRUE, trs |-> trs] :
            trs \in UNION {[1..n -> Trs] : n \in 0..MaxTrs}}

InitHtmlTable ==
    /\ doc \in [pc : {"html"}, html : HtmlInputs, md_table : {"none"}]
    /\ md_log = <<>>
    /\ conv = IdleConv

\* md_table = self._html_table_to_markdown(html), line 879
html_table_to_markdown ==
    /\ doc.pc = "html"
    /\ LET out == _html_table_to_markdown(doc.html)
       IN doc' = IF out.raised # ""
                 THEN [doc EXCEPT !.pc = "raised"]
                 ELSE [doc EXCEPT !.pc = "returned", !.md_table = out.value]
    /\ UNCHANGED <<md_log, conv>>

NextHtmlTable == html_table_to_markdown

SpecHtmlTable == InitHtmlTable /\ [][NextHtmlTable]_vars

\* ------------------------------------------------------------------------
\* Two client sessions, start_conversion of main.py (lines 169-268)
\*
\* In this part conv holds two conversions that run in threads of the
\* executor and the files they work on: conv.session[s] is session s (its
\* file_id, the stem and suffix of its filename, its options, its position
\* and the paths it has read, written or deleted so far), conv.files the
\* files that exist, each with the session that wrote it last (0 for an
\* upload), conv.clobbered whether a session has overwritten, deleted or
\* read a file that the other session wrote.  The compiler succeeds here;
\* its failures are the matter of convert above.
\* ------------------------------------------------------------------------
FileIds == {"id-a", "id-b", "id-c"}

\* hashlib.sha256(file_id.encode()).hexdigest()[:8], line 220: the first 32
\* bits of the digest.  Distinct ids can agree in them; of the three ids
\* of the model two do.
short_hash(file_id) ==
    CASE file_id = "id-a" -> "3f9a01c2"
      [] file_id = "id-b" -> "b07e44d1"
      [] file_id = "id-c" -> "3f9a01c2"

Stems == {"report", "notes"}

\* UPLOAD_DIR / file_id
upload_session_path(r) == "uploads/" \o r.file_id \o "/"

\* input_path = UPLOAD_DIR / file_id / filename, line 182
input_path(r) == upload_session_path(r) \o r.stem \o r.suffix

\* base_name=f"{clean_title}_{short_hash}", line 224
base_name(r) == r.stem \o "_" \o short_hash(r.file_id)

\* the paths of _process_markdown (lines 929, 945) and of _process_notebook
\* (lines 855-857, 910) under OUTPUT_DIR
out_docx(r) ==
    IF r.suffix = ".md" THEN "outputs/" \o base_name(r) \o ".docx"
    ELSE "outputs/" \o base_name(r) \o "_report.docx"

temp_md(r) == "outputs/" \o base_name(r) \o "_temp.md"

out_md(r) == "outputs/" \o base_name(r) \o "_report.md"

assets_file(r) == "outputs/" \o base_name(r) \o "_report_files/output_0_0.png"

Other(s) == 3 - s

Exists(c, path) == \E f \in c.files : f.path = path

\* the session that wrote the file at path last
Owner(c, path) == (CHOOSE f \in c.files : f.path = path).by

\* session s reads, writes and deletes the given paths and goes on at next;
\* reading a missing file, or deleting one with unlink(), fails the
\* conversion
Work(c, s, reads, writes, deletes, must_exist, next) ==
    IF \E p \in reads \cup must_exist : ~Exists(c, p)
    THEN [c EXCEPT !.session[s].pc = "error",
                   !.session[s].touched = @ \cup reads \cup must_exist]
    ELSE [c EXCEPT
            !.session[s].pc = next,
            !.session[s].touched = @ \cup reads \cup writes \cup deletes,
            !.files = {f \in @ : f.path \notin writes \cup deletes}
                      \cup {[path |-> p, by |-> s] : p \in writes},
            !.clobbered = @ \/ \E p \in reads \cup writes \cup deletes :
                                   Exists(c, p) /\ Owner(c, p) = Other(s)]

Sessions ==
    [file_id : FileIds, stem : Stems, suffix : {".md", ".ipynb"},
     export_markdown : BOOLEAN, pc : {"start"}, touched : {{}}]

InitSessions ==
    /\ \E a \in Sessions, b \in Sessions :
          conv = [pc |-> "sessions",
                  session |-> <<a, b>>,
                  files |-> {[path |-> input_path(a), by |-> 0],
                             [path |-> input_path(b), by |-> 0]},
                  clobbered |-> FALSE]
    /\ md_log = <<>>
    /\ doc = IdleDoc

\* start_conversion up to the call of convert, lines 170-233
session_start(s) ==
    /\ conv.session[s].pc = "start"
    /\ conv' = Work(conv, s, {input_path(conv.session[s])}, {}, {}, {},
                    IF conv.session[s].suffix = ".md"
                    THEN "compile_raw" ELSE "export")
    /\ UNCHANGED <<md_log, doc>>

\* _process_markdown, line 932: compile the uploaded file
session_markdown_compile_raw(s) ==
    /\ conv.session[s].pc = "compile_raw"
    /\ conv' = Work(conv, s, {input_path(conv.session[s])},
                    {out_docx(conv.session[s])}, {}, {}, "normalize")
    /\ UNCHANGED <<md_log, doc>>

\* _process_markdown, lines 935-946: write the normalized temporary file
session_markdown_normalize(s) ==
    /\ conv.session[s].pc = "normalize"
    /\ conv' = Work(conv, s, {input_path(conv.session[s])},
                    {temp_md(conv.session[s])}, {}, {}, "compile_temp")
    /\ UNCHANGED <<md_log, doc>>

\* _process_markdown, line 948: compile the temporary file
session_markdown_compile_temp(s) ==
    /\ conv.session[s].pc = "compile_temp"
    /\ conv' = Work(conv, s, {temp_md(conv.session[s])},
                    {out_docx(conv.session[s])}, {}, {}, "unlink_temp")
    /\ UNCHANGED <<md_log, doc>>

\* _process_markdown, line 949: temp_md.unlink()
session_markdown_unlink_temp(s) ==
    /\ conv.session[s].pc = "unlink_temp"
    /\ conv' = Work(conv, s, {}, {}, {temp_md(conv.session[s])},
                    {temp_md(conv.session[s])}, "cleanup")
    /\ UNCHANGED <<md_log, doc>>

\* _process_notebook, lines 859-912: read the notebook, write the Markdown
\* export and its asset files
session_notebook_export(s) ==
    /\ conv.session[s].pc = "export"
    /\ conv' = Work(conv, s, {input_path(conv.session[s])},
                    {out_md(conv.session[s]), assets_file(conv.session[s])},
                    {}, {}, "compile_export")
    /\ UNCHANGED <<md_log, doc>>

\* _process_notebook, line 917: compile the Markdown export
session_notebook_compile(s) ==
    /\ conv.session[s].pc = "compile_export"
    /\ conv' = Work(conv, s, {out_md(conv.session[s])},
                    {out_docx(conv.session[s])}, {}, {}, "remove_export")
    /\ UNCHANGED <<md_log, doc>>

\* _process_notebook, lines 920-923: remove the export unless it is wanted
session_notebook_remove_export(s) ==
    /\ conv.session[s].pc = "remove_export"
    /\ conv' = Work(conv, s, {}, {},
                    IF conv.session[s].export_markdown THEN {}
                    ELSE {out_md(conv.session[s]), assets_file(conv.session[s])},
                    {}, "cleanup")
    /\ UNCHANGED <<md_log, doc>>

\* start_conversion, lines 247-253: shutil.rmtree(UPLOAD_DIR / file_id)
session_cleanup(s) ==
    /\ conv.session[s].pc = "cleanup"
    /\ conv' = Work(conv, s, {}, {},
                    {f.path : f \in {g \in conv.files :
                        StartsWith(g.path, upload_session_path(conv.session[s]))}},
                    {}, "done")
    /\ UNCHANGED <<md_log, doc>>

NextSessions ==
    \E s \in {1, 2} :
        \/ session_start(s)
        \/ session_markdown_compile_raw(s)
        \/ session_markdown_normalize(s)
        \/ session_markdown_compile_temp(s)
        \/ session_markdown_unlink_temp(s)
        \/ session_notebook_export(s)
        \/ session_notebook_compile(s)
        \/ session_notebook_remove_export(s)
        \/ session_cleanup(s)

SpecSessions == InitSessions /\ [][NextSessions]_vars

\* ------------------------------------------------------------------------
\* _add_header_footer: the layout step
\*
\* doc.sections[s] is the w:sectPr of section s; doc.headers[s] and
\* doc.footers[s] are the header and footer definitions section s refers
\* to, if it has one.  A section without a definition of its own is linked
\* to the previous section: python-docx resolves section.header and
\* section.footer to the nearest earlier section that has one, and adds a
\* definition to the first section if none has.  Lengths are in EMU, the
\* distances of w:pgMar in twips.

FieldPage == <<"fldChar begin", "instrText PAGE", "fldChar end">>

HfRun(text, children) ==
    [text |-> text, size |-> -1, name |-> "", children |-> children]

HfPara(runs) == [runs |-> runs, alignment |-> "none", pBdr |-> <<>>]

NoDefinition == [defined |-> FALSE, paragraphs |-> <<>>]

Definition(paragraphs) == [defined |-> TRUE, paragraphs |-> paragraphs]

\* the section whose definition section.header / section.footer of
\* section s works on
RECURSIVE DefinitionOwner(_, _)
DefinitionOwner(parts, s) ==
    IF parts[s].defined THEN s
    ELSE IF s > 1 THEN DefinitionOwner(parts, s - 1)
    ELSE 1

\* the definitions once section.header / section.footer of section s has
\* been read: a new one has one empty paragraph
GetOrAddDefinition(parts, s) ==
    LET o == DefinitionOwner(parts, s)
    IN IF parts[o].defined THEN parts
       ELSE [parts EXCEPT ![o] = Definition(<<HfPara(<<>>)>>)]

\* x.paragraphs[0] if x.paragraphs else x.add_paragraph()
WithFirstParagraph(part) ==
    IF Len(part.paragraphs) > 0 THEN part
    ELSE [part EXCEPT !.paragraphs = <<HfPara(<<>>)>>]

HfRunFonts(runs, cfg) ==
    [r \in DOMAIN runs |->
        [runs[r] EXCEPT !.size = cfg.font_size_header, !.name = cfg.font_family]]

_set_paragraph_border(paragraph, border_type, color, size, space) ==
    [paragraph EXCEPT
        !.pBdr = Append(@, [side |-> border_type, val |-> "single",
                            sz |-> size, space |-> space, color |-> color])]

_set_section_properties(section, cfg) ==
    [section EXCEPT
        !.top_margin = 731520, !.bottom_margin = 731520,
        !.left_margin = 914400, !.right_margin = 731520,
        !.page_width = IF cfg.paper_size = "A4" THEN 7560000 ELSE 7772400,
        !.page_height = IF cfg.paper_size = "A4" THEN 10692000 ELSE 10058400,
        !.pgMar_header = 432, !.pgMar_footer = 288]

\* lines 725-734 on the header paragraph
HeaderPara(header_para, header_content, cfg) ==
    _set_paragraph_border(
        [header_para EXCEPT
            !.runs = HfRunFonts(<<HfRun(header_content, <<>>)>>, cfg)],
        "bottom", "000000", 6, 2)

\* lines 737-774 on the footer paragraph
FooterPara(footer_para, cfg) ==
    LET existing == HfRunFonts(footer_para.runs, cfg)
        word == IF cfg.show_page_word THEN <<HfRun("Page ", <<>>)>> ELSE <<>>
        added == HfRunFonts(word \o <<HfRun("", FieldPage)>>, cfg)
    IN _set_paragraph_border(
           [footer_para EXCEPT
               !.runs = existing \o added,
               !.alignment = IF cfg.page_number_pos = "left" THEN "left"
                             ELSE IF cfg.page_number_pos = "right" THEN "right"
                             ELSE "center"],
           "top", "000000", 6, 2)

\* the first paragraph of the definition section s works on, rewritten
OnFirstParagraph(parts, s, F(_)) ==
    LET defs == GetOrAddDefinition(parts, s)
        o == DefinitionOwner(defs, s)
        part == WithFirstParagraph(defs[o])
    IN [defs EXCEPT ![o] = [part EXCEPT !.paragraphs[1] = F(@)]]

\* a section as pandoc writes it, with the page of the reference document
SectPr ==
    [top_margin |-> 914400, bottom_margin |-> 914400,
     left_margin |-> 914400, right_margin |-> 914400,
     page_width |-> 7772400, page_height |-> 10058400,
     pgMar_header |-> 720, pgMar_footer |-> 720, titlePg |-> FALSE]

\* footers a section comes with: none of its own, one without paragraph,
\* one with an empty paragraph, one of a template with a page number
FooterKinds ==
    { NoDefinition,
      Definition(<<>>),
      Definition(<<HfPara(<<>>)>>),
      Definition(<<HfPara(<<HfRun("", FieldPage)>>)>>) }

HeaderKinds == { NoDefinition, Definition(<<HfPara(<<HfRun("old", <<>>)>>)>>) }

LayoutConfigs ==
    [paper_size : {"A4", "Letter"}, header_text : {"", "H"},
     page_number_pos : {"left", "right", "center"}, show_page_word : BOOLEAN,
     font_size_header : {9}, font_family : {"Aptos"}]

InitLayout ==
    /\ \E n \in 1..MaxSections :
          doc \in [pc : {"layout"},
                   cfg : LayoutConfigs,
                   title : {"T"},
                   sections : [1..n -> {SectPr}],
                   headers : [1..n -> HeaderKinds],
                   footers : [1..n -> FooterKinds],
                   s : {1},
                   saved : {FALSE}]
    /\ md_log = <<>>
    /\ conv = IdleConv

\* one iteration of the loop over doc.sections, lines 720-774
add_header_footer_section ==
    /\ doc.pc = "layout"
    /\ LET s == doc.s
           cfg == doc.cfg
           header_content == IF cfg.header_text # "" THEN cfg.header_text
                             ELSE doc.title
           Header(p) == HeaderPara(p, header_content, cfg)
           Footer(p) == FooterPara(p, cfg)
           last == s = Len(doc.sections)
       IN doc' = [doc EXCEPT
                     !.sections[s] =
                         [_set_section_properties(@, cfg) EXCEPT !.titlePg = TRUE],
                     !.headers = OnFirstParagraph(@, s, Header),
                     !.footers = OnFirstParagraph(@, s, Footer),
                     !.s = IF last THEN 0 ELSE s + 1,
                     !.pc = IF last THEN "save" ELSE "layout"]
    /\ UNCHANGED <<md_log, conv>>

\* line 776
add_header_footer_save ==
    /\ doc.pc = "save"
    /\ doc' = [doc EXCEPT !.pc = "saved", !.saved = TRUE]
    /\ UNCHANGED <<md_log, conv>>

NextLayout ==
    \/ add_header_footer_section
    \/ add_header_footer_save

SpecLayout == InitLayout /\ [][NextLayout]_vars

\* ------------------------------------------------------------------------
\* main.py, start_conversion: the events of a request
\*
\* conv.req[sid] is the run of the handler for the start_conversion event
\* of client sid: the shape of its data, its upload directory, what
\* convert and rmtree will do, the events emitted to sid so far, and
\* whether the upload directory was removed by it.  The handler gives way
\* to other handlers at each await, so the runs of two clients interleave
\* there.  pc "failed" is the handler left by an exception that nothing
\* catches: no event is emitted.
\* ------------------------------------------------------------------------
Sids == {"sid-1", "sid-2"}

\* the data of the event: not an object; an object without file_id or
\* filename (absent or empty); one whose file_id or filename is a value
\* that is no string (a number); one with both as strings
DataKinds == {"not_object", "missing", "not_strings", "strings"}

\* the directory UPLOAD_DIR / file_id: absent, without the input file, or
\* with it
UploadDirs == {"absent", "without_input", "with_input"}

Requests ==
    [pc : {"received"},
     data : DataKinds,
     upload_dir : UploadDirs,
     convert_raises : BOOLEAN,
     rmtree_raises : BOOLEAN,
     events : {<<>>},
     removed : {FALSE}]

InitEvents ==
    /\ conv \in [pc : {"events"}, req : [Sids -> Requests]]
    /\ md_log = <<>>
    /\ doc = IdleDoc

\* await sio.emit(event, ..., to=sid)
Emit(r, event) == [r EXCEPT !.events = Append(@, event)]

\* lines 173-190: the reads of data and the two checks
Receive(r) ==
    IF r.data = "not_object" THEN [r EXCEPT !.pc = "failed"]
    ELSE IF r.data = "missing"
         THEN [Emit(r, "conversion_error") EXCEPT !.pc = "done"]
    ELSE IF r.data = "not_strings" THEN [r EXCEPT !.pc = "failed"]
    ELSE IF r.upload_dir # "with_input"
         THEN [Emit(r, "conversion_error") EXCEPT !.pc = "done"]
    ELSE [r EXCEPT !.pc = "progress"]

\* lines 247-253: the cleanup of the upload directory, with its own except
Cleanup(r) ==
    IF r.upload_dir = "absent" \/ r.rmtree_raises
    THEN [r EXCEPT !.pc = "done"]
    ELSE [r EXCEPT !.pc = "done", !.upload_dir = "absent", !.removed = TRUE]

start_conversion_receive(sid) ==
    /\ conv.req[sid].pc = "received"
    /\ conv' = [conv EXCEPT !.req[sid] = Receive(@)]
    /\ UNCHANGED <<md_log, doc>>

\* line 232
start_conversion_progress(sid) ==
    /\ conv.req[sid].pc = "progress"
    /\ conv' = [conv EXCEPT
                   !.req[sid] = [Emit(@, "conversion_progress") EXCEPT
                                    !.pc = "converting"]]
    /\ UNCHANGED <<md_log, doc>>

\* lines 234-240: run_conversion(convert_sync) and the payload
start_conversion_run(sid) ==
    /\ conv.req[sid].pc = "converting"
    /\ conv' = [conv EXCEPT
                   !.req[sid].pc = IF conv.req[sid].convert_raises
                                   THEN "except" ELSE "complete"]
    /\ UNCHANGED <<md_log, doc>>

\* line 242
start_conversion_complete(sid) ==
    /\ conv.req[sid].pc = "complete"
    /\ conv' = [conv EXCEPT
                   !.req[sid] = [Emit(@, "conversion_complete") EXCEPT
                                    !.pc = "cleanup"]]
    /\ UNCHANGED <<md_log, doc>>

\* lines 247-253
start_conversion_cleanup(sid) ==
    /\ conv.req[sid].pc = "cleanup"
    /\ conv' = [conv EXCEPT !.req[sid] = Cleanup(@)]
    /\ UNCHANGED <<md_log, doc>>

\* lines 266-268
start_conversion_except(sid) ==
    /\ conv.req[sid].pc = "except"
    /\ conv' = [conv EXCEPT
                   !.req[sid] = [Emit(@, "conversion_error") EXCEPT !.pc = "done"]]
    /\ UNCHANGED <<md_log, doc>>

NextEvents ==
    \E sid \in Sids :
        \/ start_conversion_receive(sid)
        \/ start_conversion_progress(sid)
        \/ start_conversion_run(sid)
        \/ start_conversion_complete(sid)
        \/ start_conversion_cleanup(sid)
        \/ start_conversion_except(sid)

SpecEvents == InitEvents /\ [][NextEvents]_vars

\* ------------------------------------------------------------------------
\* Claims about the Markdown normalizer
\* ------------------------------------------------------------------------
BlankLine(l) == Strip(l) = ""

\* a rule line, as the claim words it
RuleLine(l) ==
    LET t == Strip(l)
    IN \/ t \in {"---", "***", "___"}
       \/ /\ Len(t) > 5
          /\ \E c \in {"_", "-", "*"} : \A i \in 1..Len(t) : Ch(t, i) = c

\* a level-1 heading, as the claim words it: one '#', then a space
HeadingOneLine(l) ==
    LET t == Strip(l)
    IN Len(t) >= 2 /\ Ch(t, 1) = "#" /\ Ch(t, 2) = " "

\* line i of L is a rule line whose nearest non-blank line above is a
\* level-1 heading
DroppedLine(L, i) ==
    /\ RuleLine(L[i])
    /\ \E j \in 1..(i - 1) :
          /\ ~BlankLine(L[j])
          /\ \A k \in (j + 1)..(i - 1) : BlankLine(L[k])
          /\ HeadingOneLine(L[j])

\* L without its dropped lines, in order, from line i on
RECURSIVE KeptLinesFrom(_, _)
KeptLinesFrom(L, i) ==
    IF i > Len(L) THEN <<>>
    ELSE (IF DroppedLine(L, i) THEN <<>> ELSE <<L[i]>>) \o KeptLinesFrom(L, i + 1)

\* C2: _strip_hrs_after_headers drops a line iff it is a rule line whose
\* nearest non-blank line above, in the input, is a level-1 heading; every
\* other line is kept, in input order.
Thm_C2_DropsExactlyRulesAfterH1 ==
    Len(md_log) = 2 =>
        md_log[2] = JoinLines(KeptLinesFrom(SplitLines(md_log[1]), 1))

\* a text with a rule dropped, a blank line between it and the heading, has
\* been through the pass
Wit_C2_RuleDroppedAcrossBlank ==
    /\ Len(md_log) = 2
    /\ LET L == SplitLines(md_log[1])
       IN /\ \E i \in 1..Len(L) : DroppedLine(L, i) /\ BlankLine(L[i - 1])
          /\ Len(SplitLines(md_log[2])) < Len(L)

\* C3: decorative-rule removal is idempotent: applying it to its own output
\* changes nothing, also when several rule lines follow one level-1 heading.
Cex_C3_StripHrsIdempotent ==
    Len(md_log) = 3 => md_log[3] = md_log[2]

\* text[i] opens a reference '![caption](path)' whose caption and path hold
\* none of the characters of the syntax, and no '![' comes before it
PlainChars(s, a, b) ==
    \A x \in a..b : Ch(s, x) \notin {"!", "[", "]", "(", ")", "\n"}

FirstPlainReference(s, i, j, k) ==
    /\ OpensAt(s, i)
    /\ \A h \in 1..(i - 1) : ~OpensAt(s, h)
    /\ i + 2 <= j /\ j + 2 <= k /\ k <= Len(s)
    /\ Ch(s, j) = "]" /\ Ch(s, j + 1) = "(" /\ Ch(s, k) = ")"
    /\ PlainChars(s, i + 2, j - 1)
    /\ PlainChars(s, j + 2, k - 1)

\* C4: caption stripping is idempotent, and an image reference
\* '![caption](path)' becomes '![](path)' with the same path (the text
\* before it unchanged, the text after it stripped in turn).
Thm_C4_StripCaptionsIdempotentKeepsPath ==
    Len(md_log) = 3 =>
        /\ md_log[3] = md_log[2]
        /\ \A i \in 1..Len(md_log[1]) : OpensAt(md_log[1], i) =>
           \A j \in (i + 2)..Len(md_log[1]) : Ch(md_log[1], j) = "]" =>
           \A k \in (j + 2)..Len(md_log[1]) :
              FirstPlainReference(md_log[1], i, j, k) =>
                  md_log[2] = SubSeq(md_log[1], 1, i - 1) \o "![]("
                              \o SubSeq(md_log[1], j + 2, k - 1) \o ")"
                              \o _strip_captions(SubSeq(md_log[1], k + 1, Len(md_log[1])))

\* a reference with a caption and a path has been stripped twice
Wit_C4_CaptionStrippedTwice ==
    /\ Len(md_log) = 3
    /\ md_log[1] # md_log[2]
    /\ \E i, j, k \in 1..Len(md_log[1]) :
          /\ FirstPlainReference(md_log[1], i, j, k)
          /\ j > i + 2
          /\ k > j + 2

\* ------------------------------------------------------------------------
\* Claims about convert()
\* ------------------------------------------------------------------------
LastEvent == conv.trace[Len(conv.trace)]

CosmeticFailureAt(i) ==
    conv.trace[i].op \in {"layout", "styling"} /\ ~conv.trace[i].ok

\* C5: when the external compiler exits non-zero, convert raises
\* ConversionError carrying the exit code, layout and styling are not run
\* on that compiler output, and no output document produced by this
\* conversion remains at the output path -- for Markdown input too.
Cex_C5_CompilerFailureLeavesNoDocument ==
    (conv.trace # <<>> /\ \E i \in 1..Len(conv.trace) :
                              conv.trace[i].op = "pandoc" /\ ~conv.trace[i].ok) =>
        /\ conv.pc = "done"
        /\ conv.outcome = "ConversionError"
        /\ conv.error.kind = "pandoc_failed" /\ conv.error.exit # 0
        /\ LastEvent.op = "pandoc"
        /\ "out_docx" \notin conv.files

\* C6: when the compiler binary is absent, convert raises ConversionError
\* before any processing: no HTML, Markdown, asset or document file has
\* been written by the conversion when the error is raised, for notebook
\* and Markdown inputs alike.
Cex_C6_MissingCompilerRejectedBeforeProcessing ==
    (conv.exists /\ SupportedSuffix(conv.suffix) /\ ~conv.pandoc_on_path
     /\ conv.pc = "done") =>
        /\ conv.outcome = "ConversionError"
        /\ conv.error.kind = "pandoc_not_found" => conv.files = {}

\* C7: a missing input file, or an input whose suffix is neither .ipynb nor
\* .md, is rejected with ConversionError before any processing: the output
\* directory is not created, no file is written, neither the compiler nor
\* the notebook exporter is invoked.
Thm_C7_BadInputRejectedBeforeProcessing ==
    (~conv.exists \/ conv.suffix \notin {".ipynb", ".md"}) =>
        /\ conv.pc \in {"convert", "done"}
        /\ conv.pc = "done" =>
              /\ conv.outcome = "ConversionError"
              /\ conv.error.kind \in {"input_not_found", "unsupported_type"}
        /\ ~conv.dir_created
        /\ conv.files = {}
        /\ conv.trace = <<>>

\* an existing .txt input, with an output directory asked for, was rejected
Wit_C7_UnsupportedSuffixRejected ==
    /\ conv.pc = "done"
    /\ conv.exists /\ conv.suffix = ".txt" /\ conv.output_dir_given
    /\ conv.error.kind = "unsupported_type"

\* C8: once the compiler has exited with code 0, an exception raised in the
\* layout step or in the styling step is not propagated, the styling step is
\* still attempted after a layout failure, and convert() returns a result
\* naming the output document.
Thm_C8_CosmeticFailureNeverAborts ==
    /\ (conv.trace # <<>> /\ LastEvent.op = "layout" /\ ~LastEvent.ok) =>
           conv.pc = "styling" /\ conv.outcome = "running"
    /\ (conv.trace # <<>> /\ LastEvent.op = "styling" /\ ~LastEvent.ok) =>
           conv.outcome # "ConversionError"
    /\ \A i \in 1..(Len(conv.trace) - 1) :
           conv.trace[i].op = "layout" => conv.trace[i + 1].op = "styling"
    /\ ( /\ conv.pc = "done"
         /\ \E i \in 1..Len(conv.trace) : CosmeticFailureAt(i)
         /\ \A i \in 1..Len(conv.trace) :
               conv.trace[i].op = "pandoc" => conv.trace[i].ok ) =>
           /\ conv.outcome = "returned"
           /\ conv.result.docx = "out_docx"
           /\ "out_docx" \in conv.files

\* a conversion in which both the layout step and the styling step raised
\* has returned its result
Wit_C8_ReturnedAfterLayoutAndStylingFailures ==
    /\ conv.pc = "done" /\ conv.outcome = "returned"
    /\ \E i \in 1..Len(conv.trace) : conv.trace[i].op = "layout" /\ ~conv.trace[i].ok
    /\ \E i \in 1..Len(conv.trace) : conv.trace[i].op = "styling" /\ ~conv.trace[i].ok

\* C9: the steps run in the order normalizer, compiler, layout, styling:
\* the compiler is never invoked on Markdown to which the normalizer passes
\* have not been applied, and on a compiled document layout is applied once
\* and before styling.
Cex_C9_NormalizerBeforeCompiler ==
    \A i \in 1..Len(conv.trace) :
        /\ conv.trace[i].op = "pandoc" =>
              \E j \in 1..(i - 1) : /\ conv.trace[j].op = "normalize"
                                    /\ conv.trace[j].arg = conv.trace[i].arg
        /\ conv.trace[i].op = "layout" => conv.trace[i - 1].op = "pandoc"
        /\ conv.trace[i].op = "styling" => conv.trace[i - 1].op = "layout"

\* ------------------------------------------------------------------------
\* Claims about _apply_styling
\* ------------------------------------------------------------------------
InBody(id) == \E k \in 1..Len(doc.body) : doc.body[k].id = id

BlankParagraph(p) == Strip(p.text) = ""

\* a rule paragraph, as the claim words it
RuleParagraph(p) ==
    LET t == Strip(p.text)
    IN \/ p.pBdr # <<>>
       \/ t \in {"---", "***", "___"}
       \/ (Len(t) > 5 /\ \A i \in 1..Len(t) : Ch(t, i) = "_")

\* the nearest paragraph before k with non-empty trimmed text has style
\* 'Heading 1', in the sequence P
AfterHeading1(P, k) ==
    \E j \in 1..(k - 1) :
        /\ ~BlankParagraph(P[j])
        /\ \A m \in (j + 1)..(k - 1) : BlankParagraph(P[m])
        /\ P[j].style = "Heading 1"

Pass1Over == doc.pc \in {"pass2", "numbering"}

\* C1: Pass 1 never deletes a paragraph unless it is a rule paragraph and
\* the nearest preceding paragraph with non-empty trimmed text has style
\* exactly 'Heading 1'; a rule paragraph with another predecessor, or none,
\* is still in the document after Pass 1.
Thm_C1_CleanupDeletesOnlyRulesAfterHeading1 ==
    doc.pc # "open" =>
        \A k \in 1..Len(doc.paragraphs) :
            /\ ~InBody(doc.paragraphs[k].id) =>
                  /\ RuleParagraph(doc.paragraphs[k])
                  /\ AfterHeading1(doc.paragraphs, k)
            /\ (RuleParagraph(doc.paragraphs[k]) /\ ~AfterHeading1(doc.paragraphs, k)) =>
                  InBody(doc.paragraphs[k].id)

\* Pass 1 is over on a document in which it deleted a rule and kept a rule
\* with blank paragraphs before it
Wit_C1_RuleDeletedAndRuleKept ==
    /\ Pass1Over
    /\ \E k \in 1..Len(doc.paragraphs) : ~InBody(doc.paragraphs[k].id)
    /\ \E k \in 2..Len(doc.paragraphs) :
          /\ RuleParagraph(doc.paragraphs[k])
          /\ BlankParagraph(doc.paragraphs[k - 1])
          /\ ~AfterHeading1(doc.paragraphs, k)
          /\ InBody(doc.paragraphs[k].id)

\* the paragraph as it was before the passes
Original(p) ==
    doc.paragraphs[CHOOSE k \in 1..Len(doc.paragraphs) : doc.paragraphs[k].id = p.id]

HeadingIndexes ==
    {k \in 1..Len(doc.body) : StartsWith(doc.body[k].style, "Heading")}

RunIndexes(k) == 1..Len(doc.body[k].runs)

\* what holds of every heading: accent colour, 18pt for 'Heading 1', page
\* break before iff 'Heading 1'
HeadingColourSizeBreak(k) ==
    /\ \A r \in RunIndexes(k) : doc.body[k].runs[r].color = "4F81BD"
    /\ doc.body[k].style = "Heading 1" =>
          \A r \in RunIndexes(k) : doc.body[k].runs[r].size = 18
    /\ doc.body[k].page_break_before = "true" <=> doc.body[k].style = "Heading 1"

\* C10 as claimed: after Pass 2 every heading run has the accent colour,
\* the size is forced to 18pt only for 'Heading 1' (other heading levels
\* keep the size they had), page-break-before is set iff 'Heading 1'.
Cex_C10_OtherHeadingsKeepSize ==
    doc.pc = "numbering" =>
        \A k \in HeadingIndexes :
            /\ HeadingColourSizeBreak(k)
            /\ doc.body[k].style # "Heading 1" =>
                  \A r \in RunIndexes(k) :
                      doc.body[k].runs[r].size = Original(doc.body[k]).runs[r].size

\* the heading is also a caption: 'Figure <digits>' text, image just before
CaptionCase(k) ==
    /\ MatchesFigure(Strip(doc.body[k].text))
    /\ k > 1
    /\ doc.body[k - 1].image

\* C10 as amended: after Pass 2 every heading run has the accent colour,
\* 'Heading 1' runs are 18pt, page-break-before is set iff 'Heading 1', and
\* the runs of another heading level have the code font size when the style
\* name contains 'Source Code', else 10pt when the heading is a caption,
\* else the size they had.
Thm_C10_HeadingRuns ==
    doc.pc = "numbering" =>
        \A k \in HeadingIndexes :
            /\ HeadingColourSizeBreak(k)
            /\ doc.body[k].style # "Heading 1" =>
                  \A r \in RunIndexes(k) :
                      doc.body[k].runs[r].size =
                          IF Contains(doc.body[k].style, "Source Code")
                          THEN doc.cfg.font_size_code
                          ELSE IF CaptionCase(k) THEN 10
                          ELSE Original(doc.body[k]).runs[r].size

\* Pass 2 is over on a document with a 'Heading 1' of two runs and a
\* 'Heading 2' that is a caption
Wit_C10_Heading1AndCaptionHeading ==
    /\ doc.pc = "numbering"
    /\ \E k \in HeadingIndexes :
          doc.body[k].style = "Heading 1" /\ Len(doc.body[k].runs) = 2
    /\ \E k \in HeadingIndexes :
          doc.body[k].style = "Heading 2" /\ CaptionCase(k)

\* the caption test as the claim words it: the trimmed text starts with
\* 'Figure', whitespace and a digit, in any case, and the paragraph right
\* before k in the sequence after cleanup holds an image
FigureText(text) ==
    LET t == Strip(text)
    IN /\ Len(t) >= 8
       /\ \A i \in 1..6 : Ch(t, i) \in {Ch("figure", i), Ch("FIGURE", i)}
       /\ \E d \in 8..Len(t) :
             /\ Ch(t, d) \in Digits
             /\ \A w \in 7..(d - 1) : Ch(t, w) \in Whitespace

ImageJustBefore(k) == k > 1 /\ doc.body[k - 1].image

\* the marks caption styling leaves on a paragraph: single line spacing,
\* and 10pt runs where no heading or code rule sets the size
CaptionStyled(k) ==
    /\ doc.body[k].line_rule = "multiple" /\ doc.body[k].line_spacing = 100
    /\ doc.body[k].space_before = 9 /\ doc.body[k].space_after = 9

PlainParagraph(p) ==
    /\ ~StartsWith(p.style, "Heading")
    /\ ~Contains(p.style, "Source Code")
    /\ ~(Contains(p.style, "List") \/ Contains(p.style, "Compact") \/ p.numPr)

\* C11: Pass 2 treats a paragraph as a caption iff its trimmed text starts
\* with 'Figure', whitespace and a digit (in any case) and the paragraph
\* right before it after cleanup holds an image; a 'Figure N' paragraph that
\* is first, or follows a paragraph without image, gets no caption styling
\* (a plain paragraph then has the body font size and exact 16pt lines).
Thm_C11_CaptionIffFigureTextAfterImage ==
    doc.pc = "numbering" =>
        \A k \in 1..Len(doc.body) :
            PlainParagraph(doc.body[k]) =>
                IF FigureText(doc.body[k].text) /\ ImageJustBefore(k)
                THEN /\ CaptionStyled(k)
                     /\ \A r \in RunIndexes(k) : doc.body[k].runs[r].size = 10
                ELSE /\ ~CaptionStyled(k)
                     /\ \A r \in RunIndexes(k) :
                            doc.body[k].runs[r].size = doc.cfg.font_size_body

\* Pass 2 is over on a document whose first paragraph is a 'Figure'
\* paragraph and whose last is a plain 'Figure' paragraph right after an
\* image
Wit_C11_FigureFirstAndFigureAfterImage ==
    /\ doc.pc = "numbering"
    /\ Len(doc.body) = 3
    /\ FigureText(doc.body[1].text) /\ PlainParagraph(doc.body[1])
    /\ FigureText(doc.body[3].text) /\ PlainParagraph(doc.body[3])
    /\ ImageJustBefore(3)

\* C12 as claimed: at the end of Pass 2 every run of a caption paragraph
\* has font size 10pt, whatever the body font size and the other flags.
Cex_C12_CaptionRunsAlways10pt ==
    doc.pc = "numbering" =>
        \A k \in 1..Len(doc.body) :
            (FigureText(doc.body[k].text) /\ ImageJustBefore(k)) =>
                \A r \in RunIndexes(k) : doc.body[k].runs[r].size = 10

\* C12 as amended: at the end of Pass 2 the runs of a caption paragraph
\* have the code font size when its style contains 'Source Code', else 18pt
\* when its style is 'Heading 1', else 10pt; the body font size is never
\* applied to them.
Thm_C12_CaptionRunSizes ==
    doc.pc = "numbering" =>
        \A k \in 1..Len(doc.body) :
            (FigureText(doc.body[k].text) /\ ImageJustBefore(k)) =>
                \A r \in RunIndexes(k) :
                    doc.body[k].runs[r].size =
                        IF Contains(doc.body[k].style, "Source Code")
                        THEN doc.cfg.font_size_code
                        ELSE IF doc.body[k].style = "Heading 1" THEN 18
                        ELSE 10

\* Pass 2 is over, under a body font size other than 12, on a document
\* with a list paragraph that is a caption
Wit_C12_ListCaptionUnderOtherBodySize ==
    /\ doc.pc = "numbering"
    /\ doc.cfg.font_size_body = 9
    /\ \E k \in 2..Len(doc.body) :
          /\ doc.body[k].numPr /\ FigureText(doc.body[k].text) /\ ImageJustBefore(k)

\* ------------------------------------------------------------------------
\* Claims about the table and image steps
\* ------------------------------------------------------------------------
TablesOver == doc.pc = "images"

HeaderCell(tc) ==
    /\ tc.shd = <<"4F81BD">>
    /\ \A k \in DOMAIN tc.paragraphs : \A r \in DOMAIN tc.paragraphs[k].runs :
          /\ tc.paragraphs[k].runs[r].bold
          /\ tc.paragraphs[k].runs[r].color = "FFFFFF"

OtherCell(tc) ==
    /\ tc.shd = <<>>
    /\ \A k \in DOMAIN tc.paragraphs : \A r \in DOMAIN tc.paragraphs[k].runs :
          tc.paragraphs[k].runs[r].color = "000000"

CellParagraphsReset(tc) ==
    \A k \in DOMAIN tc.paragraphs :
        /\ tc.paragraphs[k].space_before = 0
        /\ tc.paragraphs[k].space_after = 0
        /\ tc.paragraphs[k].shd = <<>>

\* C13: after table formatting, in every table every cell of row 0 has the
\* accent background 4F81BD and bold white runs, every cell of another row
\* has no background and black runs, and every cell paragraph has 0pt
\* spacing before and after and no shading.
Cex_C13_HeaderAccentOthersBlack ==
    TablesOver =>
        \A t \in DOMAIN doc.tables :
            LET rows == doc.tables[t].rows
            IN \A i \in DOMAIN rows : \A c \in DOMAIN rows[i] :
                  /\ IF i = 1 THEN HeaderCell(rows[i][c]) ELSE OtherCell(rows[i][c])
                  /\ CellParagraphsReset(rows[i][c])

\* |a - b|
Distance(a, b) == IF a >= b THEN a - b ELSE b - a

\* the images the loop has passed, of width W > 0 before
ResizedShapes ==
    {k \in DOMAIN doc.inline_shapes :
        /\ doc.pc = "saved" \/ k < doc.s
        /\ doc.before[k].width > 0}

\* C14: with resizing enabled, every inline image of width W > 0 and
\* height H has, after resizing to the content width T, width T and a
\* height within one unit of H*T/W (compared after multiplying by W); an
\* image whose width is T already is left as it was.
Thm_C14_ResizeKeepsAspectRatio ==
    (doc.cfg.resize_images /\ doc.pc \in {"images", "saved"}) =>
        \A k \in ResizedShapes :
            LET W == doc.before[k].width
                H == doc.before[k].height
                T == available_width(doc.section)
            IN /\ doc.inline_shapes[k].width = T
               /\ Distance(doc.inline_shapes[k].height * W, H * T) <= W
               /\ W = T => doc.inline_shapes[k] = doc.before[k]

\* the document is saved after an image was scaled to a height that is
\* not a whole multiple, and an image of the content width was passed
Wit_C14_ScaledWithRoundingAndLeftAlone ==
    /\ doc.pc = "saved" /\ doc.cfg.resize_images
    /\ \E k \in ResizedShapes :
          /\ doc.before[k].width # available_width(doc.section)
          /\ (doc.before[k].height * available_width(doc.section))
                 % doc.before[k].width # 0
          /\ doc.inline_shapes[k].height > doc.before[k].height
    /\ \E k \in ResizedShapes :
          /\ doc.before[k].width = available_width(doc.section)
          /\ doc.before[k].height # doc.before[k].width

\* ------------------------------------------------------------------------
\* Claims about _html_table_to_markdown
\* ------------------------------------------------------------------------
\* the header and data cells of each tr of the input, rows without cell
\* left out
InputRows ==
    LET cells(tr) == SelectSeq(tr, LAMBDA c : c.tag \in {"td", "th"})
    IN SelectSeq([k \in DOMAIN doc.html.trs |-> cells(doc.html.trs[k])],
                 LAMBDA r : Len(r) > 0)

LongestInputRow == SetMax({Len(InputRows[k]) : k \in DOMAIN InputRows})

\* the columns of a row of a text table: one less than its pipes
ColumnCount(line) ==
    Cardinality({i \in 1..Len(line) : Ch(line, i) = "|"}) - 1

TextRows == SplitLines(doc.md_table)

\* C15: every rendered row of the text table (header, separator, data) has
\* as many columns as the longest input row has cells, and the text table
\* has one row per input row with a cell, plus the separator.
Cex_C15_EveryRowHasLongestRowColumns ==
    (doc.pc = "returned" /\ doc.html.table /\ Len(InputRows) > 0) =>
        /\ Len(TextRows) = Len(InputRows) + 1
        /\ \A k \in DOMAIN TextRows : ColumnCount(TextRows[k]) = LongestInputRow

\* C16: _html_table_to_markdown returns the empty string when the HTML
\* fragment has no table element or the table has no row with a header or
\* data cell, and a non-empty string otherwise.
Cex_C16_EmptyTextIffNoTableOrNoRow ==
    doc.pc # "html" =>
        /\ doc.pc = "returned"
        /\ doc.md_table = "" <=> (~doc.html.table \/ Len(InputRows) = 0)

\* ------------------------------------------------------------------------
\* Claims about concurrent sessions
\* ------------------------------------------------------------------------
DistinctFileIds ==
    conv.session[1].file_id # conv.session[2].file_id

\* C17: two conversions with distinct file_ids touch disjoint sets of
\* input, intermediate and output paths, and neither overwrites, deletes or
\* reads a file the other wrote, in any interleaving.
Cex_C17_SessionsShareNoFile ==
    DistinctFileIds =>
        /\ conv.session[1].touched \cap conv.session[2].touched = {}
        /\ ~conv.clobbered

\* ------------------------------------------------------------------------
\* More claims about the passes of _apply_styling
\* ------------------------------------------------------------------------
\* the paragraphs of P from index k on, in order, without the rule
\* paragraphs whose nearest non-blank predecessor in P is a 'Heading 1'
RECURSIVE FilteredFrom(_, _)
FilteredFrom(P, k) ==
    IF k > Len(P) THEN <<>>
    ELSE (IF RuleParagraph(P[k]) /\ AfterHeading1(P, k) THEN <<>> ELSE <<P[k]>>)
         \o FilteredFrom(P, k + 1)

Ids(P) == [k \in DOMAIN P |-> P[k].id]

\* C18: the in-place deletion of Pass 1, in reverse order, gives the
\* pre-pass sequence filtered: while the loop is at index i the document
\* is the first i paragraphs followed by the filtered rest, and after the
\* pass it is the pre-pass sequence, in order, minus exactly the rule
\* paragraphs whose nearest preceding non-blank paragraph there is a
\* 'Heading 1'.
Thm_C18_ReverseDeletionIsFilter ==
    /\ doc.pc = "pass1" =>
          Ids(doc.body) = Ids(SubSeq(doc.paragraphs, 1, doc.i)
                              \o FilteredFrom(doc.paragraphs, doc.i + 1))
    /\ Pass1Over => Ids(doc.body) = Ids(FilteredFrom(doc.paragraphs, 1))

\* Pass 1 is over on a document in which two consecutive bordered rule
\* paragraphs without text followed a 'Heading 1', and both are gone
Wit_C18_RunOfBorderedRulesRemoved ==
    /\ Pass1Over
    /\ \E k \in 1..(Len(doc.paragraphs) - 2) :
          /\ doc.paragraphs[k].style = "Heading 1"
          /\ ~BlankParagraph(doc.paragraphs[k])
          /\ \A j \in {k + 1, k + 2} :
                /\ doc.paragraphs[j].pBdr # <<>>
                /\ BlankParagraph(doc.paragraphs[j])
                /\ ~InBody(doc.paragraphs[j].id)

CodeParagraph(p) == Contains(p.style, "Source Code")

\* k starts, or ends, a maximal run of code paragraphs of the document
StartsCodeRun(k) == k = 1 \/ ~CodeParagraph(doc.body[k - 1])

EndsCodeRun(k) == k = Len(doc.body) \/ ~CodeParagraph(doc.body[k + 1])

HasBorder(p, side) == \E b \in p.pBdr[1] : b.side = side

InvisibleBorder(p, side) ==
    /\ HasBorder(p, side)
    /\ \A b \in p.pBdr[1] : b.side = side => b.val = "none" /\ b.sz = 0

\* C19: after Pass 2 every code paragraph has exactly one shading, with
\* fill F2F2F2, and exactly one border element whose left and right borders
\* have style 'none' and size 0; within a maximal run of consecutive code
\* paragraphs the top border is on the first paragraph only and the bottom
\* border on the last only.
Thm_C19_CodeRunShadingAndBorders ==
    doc.pc = "numbering" =>
        \A k \in DOMAIN doc.body :
            CodeParagraph(doc.body[k]) =>
                /\ doc.body[k].shd = <<"F2F2F2">>
                /\ Len(doc.body[k].pBdr) = 1
                /\ InvisibleBorder(doc.body[k], "left")
                /\ InvisibleBorder(doc.body[k], "right")
                /\ HasBorder(doc.body[k], "top") <=> StartsCodeRun(k)
                /\ HasBorder(doc.body[k], "bottom") <=> EndsCodeRun(k)

\* Pass 2 is over on a run of three code paragraphs, one of which came
\* with a border and two shadings of its own
Wit_C19_RunOfThreeCodeParagraphs ==
    /\ doc.pc = "numbering"
    /\ Len(doc.body) = 3
    /\ \A k \in 1..3 : CodeParagraph(doc.body[k])
    /\ \E k \in 1..3 : Len(Original(doc.body[k]).shd) = 2
    /\ ~HasBorder(doc.body[2], "top") /\ ~HasBorder(doc.body[2], "bottom")

ListParagraph(p) ==
    Contains(p.style, "List") \/ Contains(p.style, "Compact") \/ p.numPr

\* C20: after Pass 2 no list paragraph (style name with 'List' or
\* 'Compact', or numbering properties) has a paragraph-level indentation
\* element or tab-stop element, whatever it had before, also when it is a
\* code paragraph that got the 180-unit code indent in the same iteration.
Thm_C20_ListsCarryNoIndentOrTabs ==
    doc.pc = "numbering" =>
        \A k \in DOMAIN doc.body :
            ListParagraph(doc.body[k]) =>
                doc.body[k].ind = <<>> /\ doc.body[k].tabs = 0

\* Pass 2 is over on a document with a list paragraph that is code and had
\* an indent and a tab stop, and a list paragraph with two indent elements
Wit_C20_CodeListAndIndentedList ==
    /\ doc.pc = "numbering"
    /\ \E k \in DOMAIN doc.body :
          /\ ListParagraph(doc.body[k]) /\ CodeParagraph(doc.body[k])
          /\ Original(doc.body[k]).ind # <<>> /\ Original(doc.body[k]).tabs > 0
    /\ \E k \in DOMAIN doc.body :
          ListParagraph(doc.body[k]) /\ Len(Original(doc.body[k]).ind) = 2

HeadingParagraph(p) == StartsWith(p.style, "Heading")

Exact16(p) == p.line_rule = "exact" /\ p.line_spacing = 16

\* C21: at the end of Pass 2 a paragraph has the exact 16pt
\* line spacing only if it has no image, no math and is none of heading,
\* list item, code block or caption.
Cex_C21_Exact16OnlyOnPlainBody ==
    doc.pc = "numbering" =>
        \A k \in DOMAIN doc.body :
            Exact16(doc.body[k]) =>
                /\ ~doc.body[k].image /\ ~doc.body[k].math
                /\ ~HeadingParagraph(doc.body[k])
                /\ ~ListParagraph(doc.body[k])
                /\ ~CodeParagraph(doc.body[k])
                /\ ~CaptionCase(k)

Cex_C23_TocHeadingStyledAlways ==
    (doc.pc = "numbering" /\ doc.toc.present /\ doc.toc.style = "TOCHeading") =>
        /\ doc.toc.space_after = 6
        /\ \A r \in DOMAIN doc.toc.runs :
              doc.toc.runs[r].size = 18 /\ doc.toc.runs[r].color = accent_blue

\* ------------------------------------------------------------------------
\* Claims about the layout step

\* the footer paragraph of section s
FooterParagraphOf(s) ==
    doc.footers[DefinitionOwner(doc.footers, s)].paragraphs[1]

IsFieldElement(e) == e \in {"fldChar begin", "instrText PAGE", "fldChar end"}

\* the runs of paragraph p that hold an element of a field
FieldRuns(p) ==
    {r \in DOMAIN p.runs :
        \E e \in DOMAIN p.runs[r].children : IsFieldElement(p.runs[r].children[e])}

PageWordRuns(p) == {r \in DOMAIN p.runs : p.runs[r].text = "Page "}

OnePageField(p, show_page_word) ==
    /\ Cardinality(FieldRuns(p)) = 1
    /\ \A r \in FieldRuns(p) :
          /\ p.runs[r].children = FieldPage
          /\ show_page_word => (r > 1 /\ r - 1 \in PageWordRuns(p))
    /\ (PageWordRuns(p) # {}) <=> show_page_word

\* C24: after the layout step, on a document of any number of sections,
\* the footer paragraph of each section holds exactly one page-number
\* field (field-begin, instruction text PAGE, field-end, in one run), and
\* the run 'Page ' is there, right before that run, iff show_page_word.
Cex_C24_OnePageFieldPerFooter ==
    doc.pc = "saved" =>
        \A s \in DOMAIN doc.sections :
            OnePageField(FooterParagraphOf(s), doc.cfg.show_page_word)

\* ------------------------------------------------------------------------
\* More claims about the table step

\* C25: after table formatting every table has exactly one look-flags
\* element, whatever the compiler supplied; it marks first row and first
\* column, leaves last row and last column unmarked, and disables
\* horizontal banding (noHBand is set).
Cex_C25_OneLookWithoutHorizontalBanding ==
    doc.pc = "images" =>
        \A t \in DOMAIN doc.tables :
            LET look == doc.tables[t].tblLook
            IN /\ Len(look) = 1
               /\ look[1].firstRow = 1 /\ look[1].firstColumn = 1
               /\ look[1].lastRow = 0 /\ look[1].lastColumn = 0
               /\ look[1].noHBand = 1

\* ------------------------------------------------------------------------
\* Claims about the file on disk

Places(r, event) == {k \in DOMAIN r.events : r.events[k] = event}

TerminalPlaces(r) ==
    Places(r, "conversion_complete") \cup Places(r, "conversion_error")

\* what holds of a request at every moment: never both terminal events,
\* conversion_progress before conversion_complete, the upload directory
\* removed only after conversion_complete
EventsInOrder(r) ==
    /\ Cardinality(TerminalPlaces(r)) <= 1
    /\ \A k \in Places(r, "conversion_complete") :
          \E j \in Places(r, "conversion_progress") : j < k
    /\ r.removed =>
          /\ Places(r, "conversion_complete") # {}
          /\ Places(r, "conversion_error") = {}

\* C27: every start_conversion event ends with exactly one terminal event
\* to its client, conversion_complete or conversion_error and never both;
\* conversion_complete comes after conversion_progress; the upload
\* directory is removed only after conversion_complete, never on the error
\* path.
Cex_C27_OneTerminalEventPerRequest ==
    \A sid \in Sids :
        LET r == conv.req[sid]
        IN /\ EventsInOrder(r)
           /\ r.pc \in {"done", "failed"} => Cardinality(TerminalPlaces(r)) = 1

====
